---- MODULE Spec2Model ----
(***************************************************************************)
(* Airline KPI / data-quality scripts (pandas + DuckDB), as a state        *)
(* machine.  The state is the three input tables, the configuration, and   *)
(* the working frames and output tables of the entry point that is         *)
(* running: exploration_insights.run_analysis, exploration_dq_checks.main, *)
(* kpi_viz.main, visualize.py, build_views.py and compute_metrics.py.      *)
(*                                                                         *)
(* Cell values are tagged records: [k |-> "nan"], [k |-> "nat"],           *)
(* [k |-> "num", n, d] (the rational n/d in lowest terms, d > 0),          *)
(* [k |-> "inf"], [k |-> "ninf"], [k |-> "str", s] (s a sequence of        *)
(* one-character strings), [k |-> "int", v] (an integer id cell),          *)
(* [k |-> "date", v] (v a day number, day 1 a Monday) and                  *)
(* [k |-> "day", name] (a weekday name).                                   *)
(***************************************************************************)
EXTENDS Integers, Sequences, FiniteSets, TLC

VARIABLES
    booking,    \* Booking sheet as read by read_excel + clean_cols
    passenger,  \* Passenger sheet as read by read_excel + clean_cols
    flight,     \* Flight sheet as read by read_excel + clean_cols
    missing,    \* the columns that the three sheets do not have
    legcsv,     \* data_derived/leg_detail.csv, the input of visualize.py
    cfg,        \* config/metrics.yaml: [cost, pct]
    run,        \* the entry point that was started, "idle" before
    pc,         \* its position: "end" when it has finished, "raised" when it raised
    bk,         \* the entry point's working booking frame
    pg,         \* the entry point's working passenger frame
    leg,        \* the entry point's leg table
    out,        \* the tables the entry point has produced, by name
    summary,    \* the check/count table of exploration_dq_checks.main
    files,      \* the output files the entry point has written, in order
    db          \* the DuckDB warehouse: [params, macros]

vars == <<booking, passenger, flight, missing, legcsv, cfg, run, pc, bk, pg, leg, out, summary, files, db>>

-----------------------------------------------------------------------------
(* Cell values *)

NaN == [k |-> "nan"]
NaT == [k |-> "nat"]
Inf == [k |-> "inf"]
NegInf == [k |-> "ninf"]
Str(s) == [k |-> "str", s |-> s]
Date(v) == [k |-> "date", v |-> v]

\* pd.isna / Series.isna / Series.notna
IsNA(x) == x.k \in {"nan", "nat"}
IsNum(x) == x.k = "num"

Abs(i) == IF i < 0 THEN -i ELSE i

RECURSIVE Gcd(_, _)
Gcd(a, b) == IF b = 0 THEN a ELSE Gcd(b, a % b)

\* the rational n/d, d # 0, in lowest terms with a positive denominator
Rat(n, d) ==
    LET g == Gcd(Abs(n), Abs(d))
        s == IF d < 0 THEN -1 ELSE 1
    IN  [k |-> "num", n |-> (s * n) \div g, d |-> (s * d) \div g]

Num(n) == [k |-> "num", n |-> n, d |-> 1]

\* float addition, subtraction, multiplication: NaN propagates
FAdd(x, y) ==
    IF IsNum(x) /\ IsNum(y) THEN Rat(x.n * y.d + y.n * x.d, x.d * y.d)
    ELSE IF x.k \in {"inf", "ninf"} /\ IsNum(y) THEN x
    ELSE IF y.k \in {"inf", "ninf"} /\ IsNum(x) THEN y
    ELSE NaN

FNeg(x) ==
    IF IsNum(x) THEN Rat(-x.n, x.d)
    ELSE IF x.k = "inf" THEN NegInf
    ELSE IF x.k = "ninf" THEN Inf
    ELSE NaN

FSub(x, y) == FAdd(x, FNeg(y))

FMul(x, y) ==
    IF IsNum(x) /\ IsNum(y) THEN Rat(x.n * y.n, x.d * y.d) ELSE NaN

\* float division as numpy/pandas do it: x/0 is +-inf, 0/0 is NaN, no exception
FDiv(x, y) ==
    IF IsNum(x) /\ IsNum(y)
    THEN IF y.n # 0 THEN Rat(x.n * y.d, x.d * y.n)
         ELSE IF x.n > 0 THEN Inf
         ELSE IF x.n < 0 THEN NegInf
         ELSE NaN
    ELSE NaN

\* x > 0 on a float column: False for NaN
GtZero(x) == (IsNum(x) /\ x.n > 0) \/ x.k = "inf"
LtZero(x) == (IsNum(x) /\ x.n < 0) \/ x.k = "ninf"
\* x > y on float columns: False when either is NaN
FGt(x, y) == IsNum(x) /\ IsNum(y) /\ x.n * y.d > y.n * x.d

\* np.where(cond, a, b) on one element
Where(cond, a, b) == IF cond THEN a ELSE b

-----------------------------------------------------------------------------
(* Text *)

DigitChars == <<"0", "1", "2", "3", "4", "5", "6", "7", "8", "9">>
Digits == {DigitChars[i] : i \in 1..Len(DigitChars)}

DigitVal(c) == (CHOOSE i \in 1..Len(DigitChars) : DigitChars[i] = c) - 1

\* str.isspace for the characters of the model
IsSpace(c) == c = " "

\* str.strip()
RECURSIVE LStrip(_)
LStrip(s) == IF s # <<>> /\ IsSpace(Head(s)) THEN LStrip(Tail(s)) ELSE s

RECURSIVE RStrip(_)
RStrip(s) ==
    IF s # <<>> /\ IsSpace(s[Len(s)]) THEN RStrip(SubSeq(s, 1, Len(s) - 1)) ELSE s

Strip(s) == LStrip(RStrip(s))

\* re.sub(r"\D+", "", s): the digits of s, in order
RECURSIVE DigitsOnly(_)
DigitsOnly(s) ==
    IF s = <<>> THEN <<>>
    ELSE IF Head(s) \in Digits THEN <<Head(s)>> \o DigitsOnly(Tail(s))
    ELSE DigitsOnly(Tail(s))

\* str(i) for an integer i >= 0
RECURSIVE NatToStr(_)
NatToStr(i) ==
    IF i < 10 THEN <<DigitChars[i + 1]>>
    ELSE NatToStr(i \div 10) \o <<DigitChars[(i % 10) + 1]>>

\* str(x) for a cell: text as is, an int as its digits, a float with ".0"
PyStr(x) ==
    IF x.k = "str" THEN x.s
    ELSE IF x.k = "int" THEN NatToStr(x.v)
    ELSE IF x.k = "num" THEN NatToStr(x.n) \o <<".", "0">>
    ELSE <<"n", "a", "n">>

UpperPairs ==
    <<<<"a", "A">>, <<"c", "C">>, <<"f", "F">>, <<"m", "M">>, <<"n", "N">>,
      <<"o", "O">>, <<"p", "P">>, <<"r", "R">>, <<"a-circumflex", "A-circumflex">>>>

\* str.upper on one character
UpperChar(c) ==
    IF \E i \in 1..Len(UpperPairs) : UpperPairs[i][1] = c
    THEN UpperPairs[CHOOSE i \in 1..Len(UpperPairs) : UpperPairs[i][1] = c][2]
    ELSE c

Upper(s) == [i \in 1..Len(s) |-> UpperChar(s[i])]

\* int(text) for a text of digits
RECURSIVE DigitsValue(_)
DigitsValue(s) ==
    IF s = <<>> THEN 0
    ELSE 10 * DigitsValue(SubSeq(s, 1, Len(s) - 1)) + DigitVal(s[Len(s)])

\* pd.to_numeric(cell, errors="coerce"): numbers stay, numeric text parses,
\* everything else becomes NaN
ToNumeric(x) ==
    IF x.k = "num" THEN x
    ELSE IF x.k = "str" /\ Strip(x.s) # <<>> /\ \A i \in 1..Len(Strip(x.s)) : Strip(x.s)[i] \in Digits
         THEN Num(DigitsValue(Strip(x.s)))
    ELSE NaN

\* pd.to_datetime(cell, errors="coerce"): dates stay, the rest becomes NaT
ToDatetime(x) == IF x.k = "date" THEN x ELSE NaT

-----------------------------------------------------------------------------
(* Booking-id normalisation: the three copies *)

\* a faulty variant: an id without digits comes back as the empty text
NormalizeEmptyString(x) ==
    IF IsNA(x) THEN NaN ELSE Str(DigitsOnly(Strip(PyStr(x))))

\* exploration_insights.normalize_booking_id
InsightsNormalizeBookingId(x) ==
    IF IsNA(x) THEN NaN
    ELSE LET s == Strip(PyStr(x))
             s_num == DigitsOnly(s)
         IN  IF s_num # <<>> THEN Str(s_num) ELSE NaN

\* exploration_dq_checks.normalize_booking_id
DqNormalizeBookingId(x) ==
    IF IsNA(x) THEN NaN
    ELSE LET s == Strip(PyStr(x))
             s_num == DigitsOnly(s)
         IN  IF s_num # <<>> THEN Str(s_num) ELSE NaN

\* kpi_viz.normalize_booking_id
KpiNormalizeBookingId(x) ==
    IF IsNA(x) THEN NaN
    ELSE LET s == Strip(PyStr(x))
             s_num == DigitsOnly(s)
         IN  IF s_num # <<>> THEN Str(s_num) ELSE NaN

-----------------------------------------------------------------------------
(* Column helpers *)

\* Series.sum(skipna=True) / DataFrame.sum(axis=1, skipna=True): NaN cells
\* are skipped, an all-NaN or empty selection sums to 0
RECURSIVE SumSkipNa(_)
SumSkipNa(cells) ==
    IF cells = <<>> THEN Num(0)
    ELSE IF IsNum(Head(cells)) THEN FAdd(Head(cells), SumSkipNa(Tail(cells)))
    ELSE SumSkipNa(Tail(cells))

\* a faulty variant: a sum that lets NaN through (skipna=False)
RECURSIVE SumKeepNa(_)
SumKeepNa(cells) ==
    IF cells = <<>> THEN Num(0) ELSE FAdd(Head(cells), SumKeepNa(Tail(cells)))

\* Series.fillna(0)
FillNa0(x) == IF IsNA(x) THEN Num(0) ELSE x

\* the non-NaN cells of a column
RECURSIVE DropNa(_)
DropNa(cells) ==
    IF cells = <<>> THEN <<>>
    ELSE IF IsNA(Head(cells)) THEN DropNa(Tail(cells))
    ELSE <<Head(cells)>> \o DropNa(Tail(cells))

\* Series.mean(skipna=True): NaN for an empty or all-NaN selection
Mean(cells) ==
    LET xs == DropNa(cells)
    IN  IF xs = <<>> THEN NaN ELSE FDiv(SumSkipNa(xs), Num(Len(xs)))

Col(t, f) == [i \in 1..Len(t) |-> t[i][f]]

DOW_ORDER == <<"Monday", "Tuesday", "Wednesday", "Thursday", "Friday", "Saturday", "Sunday">>

\* the day names in the order a sort of the strings gives
DowSorted == <<"Friday", "Monday", "Saturday", "Sunday", "Thursday", "Tuesday", "Wednesday">>

\* Series.dt.day_name(): day 1 is a Monday; NaT gives NaN
Day(name) == [k |-> "day", name |-> name]
DayName(x) == IF x.k = "date" THEN Day(DOW_ORDER[((x.v - 1) % 7) + 1]) ELSE NaN

\* Series.astype(str).str.upper().str.strip()
UpperStrip(x) == Str(Strip(Upper(PyStr(x))))

\* str.lower on one character
LowerChar(c) ==
    IF \E i \in 1..Len(UpperPairs) : UpperPairs[i][2] = c
    THEN UpperPairs[CHOOSE i \in 1..Len(UpperPairs) : UpperPairs[i][2] = c][1]
    ELSE c

Lower(s) == [i \in 1..Len(s) |-> LowerChar(s[i])]

\* the characters of a word
Chars(w) ==
    CASE w = "condor app" -> <<"c", "o", "n", "d", "o", "r", " ", "a", "p", "p">>
      [] w = "condor-app" -> <<"c", "o", "n", "d", "o", "r", "-", "a", "p", "p">>
      [] w = "app" -> <<"a", "p", "p">>
      [] w = "website" -> <<"w", "e", "b", "s", "i", "t", "e">>
      [] w = "web" -> <<"w", "e", "b">>
      [] w = "call center" -> <<"c", "a", "l", "l", " ", "c", "e", "n", "t", "e", "r">>
      [] w = "travel agency" -> <<"t", "r", "a", "v", "e", "l", " ", "a", "g", "e", "n", "c", "y">>
      [] w = "ota" -> <<"o", "t", "a">>
      [] w = "online travel agency" ->
            <<"o", "n", "l", "i", "n", "e", " ", "t", "r", "a", "v", "e", "l", " ",
              "a", "g", "e", "n", "c", "y">>

\* the mapping of norm_text_channel (exploration_insights, lines 23-33) and
\* of the replace of kpi_viz (lines 142-152): the same nine pairs
ChannelMapping ==
    <<<<"condor app", "condor app">>, <<"condor-app", "condor app">>, <<"app", "condor app">>,
      <<"website", "website">>, <<"web", "website">>, <<"call center", "call center">>,
      <<"travel agency", "travel agency">>, <<"ota", "ota">>,
      <<"online travel agency", "ota">>>>

\* mapping.get(s2, s2)
MappingGet(s2) ==
    IF \E i \in 1..Len(ChannelMapping) : Chars(ChannelMapping[i][1]) = s2
    THEN Chars(ChannelMapping[CHOOSE i \in 1..Len(ChannelMapping) : Chars(ChannelMapping[i][1]) = s2][2])
    ELSE s2

\* exploration_insights.norm_text_channel
norm_text_channel(s) ==
    IF IsNA(s) THEN s ELSE Str(MappingGet(Lower(Strip(PyStr(s)))))

\* kpi_viz: astype(str).str.strip().str.lower().replace({...}), one cell
KpiNormChannel(s) == Str(MappingGet(Lower(Strip(PyStr(s)))))

\* Series.astype(str).str.strip().str.lower()
LowerStrip(x) == Str(Lower(Strip(PyStr(x))))

-----------------------------------------------------------------------------
(* Record Normalizer: the three entry points *)

\* total_revenue as a row sum that keeps NaN: a faulty variant of the three below
RowTotalKeepNa(rt, rpre, rat) == SumKeepNa(<<rt, rpre, rat>>)

\* exploration_insights: booking[rev_cols].sum(axis=1, skipna=True)
InsightsTotalRevenue(rt, rpre, rat) == SumSkipNa(<<rt, rpre, rat>>)

\* kpi_viz: booking[rev_cols].sum(axis=1, skipna=True)
KpiTotalRevenue(rt, rpre, rat) == SumSkipNa(<<rt, rpre, rat>>)

\* exploration_dq_checks: booking[REV_COLS].sum(axis=1, skipna=True)
DqTotalRevenue(rt, rpre, rat) == SumSkipNa(<<rt, rpre, rat>>)

\* run_analysis, lines 59-93, on one Booking row
InsightsNormRow(r) ==
    LET rt == ToNumeric(r.rt)
        rpre == ToNumeric(r.rpre)
        rat == ToNumeric(r.rat)
        fd == ToDatetime(r.fdate)
        cd == ToDatetime(r.cxl)
    IN  [bookingid_norm |-> InsightsNormalizeBookingId(r.id),
         flightnumber |-> r.fn,
         flight_date |-> fd,
         cancellation_date |-> cd,
         origin |-> UpperStrip(r.org),
         destination |-> UpperStrip(r.dst),
         passengercount |-> ToNumeric(r.pax),
         rev_ticket |-> rt, rev_pre |-> rpre, rev_at |-> rat,
         total_revenue |-> InsightsTotalRevenue(rt, rpre, rat),
         ancillary_total |-> FAdd(FillNa0(rpre), FillNa0(rat)),
         is_cancelled |-> ~IsNA(cd),
         flight_dow |-> DayName(fd)]

\* kpi_viz.main, lines 99-136, on one Booking row
\* booking.get(column, default): the default when the sheet has no such column
\* (lines 130 and 134; the columns are named as clean_cols of run_analysis
\* spells them)
KpiGet(column, cell, default) == IF column \in missing THEN default ELSE cell

KpiNormRow(r) ==
    LET rt == ToNumeric(KpiGet("revenue_per_booking_(ticket)", r.rt, Num(0)))
        rpre == ToNumeric(KpiGet("revenue_per_booking_(ancilliary_pre_check_in)", r.rpre, Num(0)))
        rat == ToNumeric(KpiGet("revenue_per_booking_(ancilliary_at_check_in)", r.rat, Num(0)))
        fd == ToDatetime(r.fdate)
        cd == ToDatetime(r.cxl)
    IN  [bookingid_norm |-> KpiNormalizeBookingId(r.id),
         flightnumber |-> r.fn,
         flight_date |-> fd,
         cancellation_date |-> cd,
         origin |-> UpperStrip(r.org),
         destination |-> UpperStrip(r.dst),
         passengercount |-> ToNumeric(KpiGet("passengercount", r.pax, NaN)),
         rev_ticket |-> rt, rev_pre |-> rpre, rev_at |-> rat,
         total_revenue |-> KpiTotalRevenue(rt, rpre, rat),
         ancillary_total |-> FAdd(FillNa0(rpre), FillNa0(rat)),
         is_cancelled |-> ~IsNA(cd),
         flight_dow |-> DayName(fd)]

\* exploration_dq_checks.add_derived, lines 39-68, on one Booking row:
\* origin and destination are left as read
DqDerivedRow(r) ==
    [bookingid_norm |-> DqNormalizeBookingId(r.id),
     flightnumber |-> r.fn,
     flight_date |-> ToDatetime(r.fdate),
     cancellation_date |-> ToDatetime(r.cxl),
     origin |-> r.org,
     destination |-> r.dst,
     passengercount |-> ToNumeric(r.pax),
     rev_ticket |-> ToNumeric(r.rt),
     rev_pre |-> ToNumeric(r.rpre),
     rev_at |-> ToNumeric(r.rat),
     reservation_date |-> ToDatetime(r.res),
     routing |-> r.routing,
     routing_canonical |-> Str(UpperStrip(r.org).s \o <<"-">> \o UpperStrip(r.dst).s)]

\* flight["flightdate"] = pd.to_datetime(flight["flightdate"], errors="coerce")
FlightNormRow(f) == [f EXCEPT !.fdate = ToDatetime(f.fdate)]

EmptyOut == [n \in {} |-> <<>>]

\* the columns that run_analysis reads in lines 60-93; none has a guard, so a
\* sheet without one of them raises KeyError
InsightsNormalizeColumns ==
    {"bookingid_(pnr)", "bookingid", "reservation_date", "cancellation_date",
     "flight_date", "flightdate", "revenue_per_booking_(ticket)",
     "revenue_per_booking_(ancilliary_pre_check_in)",
     "revenue_per_booking_(ancilliary_at_check_in)", "passengercount",
     "origin", "destination", "booking_channel", "device_used"}

\* run_analysis, lines 60 and 82-83: the Passenger columns
InsightsPassengerRow(p) ==
    [bookingid_norm |-> InsightsNormalizeBookingId(p.id),
     booking_channel_norm |-> norm_text_channel(p.channel),
     device_used_norm |-> LowerStrip(p.device)] @@ p

\* kpi_viz.main, lines 108-109 and 139-153: the Passenger columns; the channel is
\* normalised only when the sheet has the column
KpiPassengerRow(p, absent) ==
    IF "booking_channel" \in absent
    THEN [bookingid_norm |-> KpiNormalizeBookingId(p.id)] @@ p
    ELSE [bookingid_norm |-> KpiNormalizeBookingId(p.id),
          booking_channel_norm |-> KpiNormChannel(p.channel)] @@ p

InsightsNormalize ==
    /\ run = "idle"
    /\ run' = "insights"
    /\ IF missing \cap InsightsNormalizeColumns # {}
       THEN pc' = "raised" /\ bk' = bk /\ pg' = pg
       ELSE /\ pc' = "leg"
            /\ bk' = [i \in 1..Len(booking) |-> InsightsNormRow(booking[i])]
            /\ pg' = [i \in 1..Len(passenger) |-> InsightsPassengerRow(passenger[i])]
    /\ UNCHANGED <<booking, passenger, flight, missing, legcsv, cfg, summary, files, leg, out, db>>

\* pd.NaT has no notna() and no dt (lines 135, 136): AttributeError when
\* the Booking sheet has no cancellation date or no flight date column
KpiNormalize ==
    /\ run = "idle"
    /\ run' = "kpi"
    /\ IF missing \cap {"cancellation_date", "flight_date"} # {}
       THEN pc' = "raised" /\ bk' = bk /\ pg' = pg
       ELSE /\ pc' = "leg"
            /\ bk' = [i \in 1..Len(booking) |-> KpiNormRow(booking[i])]
            /\ pg' = [i \in 1..Len(passenger) |-> KpiPassengerRow(passenger[i], missing)]
    /\ UNCHANGED <<booking, passenger, flight, missing, legcsv, cfg, summary, files, leg, out, db>>

\* passenger['bookingid_norm'] = passenger['bookingid'].apply(normalize_booking_id)
DqPassengerRow(p) == [bookingid_norm |-> DqNormalizeBookingId(p.id)] @@ p

DqAddDerived ==
    /\ run = "idle"
    /\ run' = "dq"
    /\ IF missing \cap {"bookingid_(pnr)", "bookingid", "origin", "destination"} # {}
       THEN pc' = "raised" /\ bk' = bk /\ pg' = pg
       ELSE /\ pc' = "checks"
            /\ bk' = [i \in 1..Len(booking) |-> DqDerivedRow(booking[i])]
            /\ pg' = [i \in 1..Len(passenger) |-> DqPassengerRow(passenger[i])]
    /\ UNCHANGED <<booking, passenger, flight, missing, legcsv, cfg, summary, files, leg, out, db>>

-----------------------------------------------------------------------------
(* Leg Aggregator *)

\* the characters of the model in code-point order
CharOrder ==
    <<" ", "-", ".", "0", "1", "2", "3", "4", "5", "6", "7", "8", "9",
      "A", "C", "F", "M", "N", "O", "P", "R",
      "a", "c", "f", "m", "n", "o", "p", "r">>

CharRank(c) == CHOOSE i \in 1..Len(CharOrder) : CharOrder[i] = c

\* a < b on Python strings
RECURSIVE StrLess(_, _)
StrLess(a, b) ==
    IF b = <<>> THEN FALSE
    ELSE IF a = <<>> THEN TRUE
    ELSE IF Head(a) = Head(b) THEN StrLess(Tail(a), Tail(b))
    ELSE CharRank(Head(a)) < CharRank(Head(b))

\* the order groupby(sort=True, dropna=False) gives one key column: null last
CellLess(x, y) ==
    IF x = y \/ IsNA(x) THEN FALSE
    ELSE IF IsNA(y) THEN TRUE
    ELSE IF x.k = "date" THEN x.v < y.v
    ELSE IF x.k = "str" THEN StrLess(x.s, y.s)
    ELSE x.n * y.d < y.n * x.d

\* the group key of a booking row: (flightnumber, flight_date, origin, destination)
KeyOf(r) == <<r.flightnumber, r.flight_date, r.origin, r.destination>>

KeyLess(a, b) ==
    IF a[1] # b[1] THEN a[1] < b[1]
    ELSE IF a[2] # b[2] THEN CellLess(a[2], b[2])
    ELSE IF a[3] # b[3] THEN CellLess(a[3], b[3])
    ELSE CellLess(a[4], b[4])

\* the distinct keys in sorted order
RECURSIVE SortKeys(_)
SortKeys(S) ==
    IF S = {} THEN <<>>
    ELSE LET m == CHOOSE x \in S : \A y \in S \ {x} : KeyLess(x, y)
         IN  <<m>> \o SortKeys(S \ {m})

GroupRows(t, key) == SelectSeq(t, LAMBDA r : KeyOf(r) = key)

\* the number of True cells of a boolean column: sum of is_cancelled
RECURSIVE CountTrue(_)
CountTrue(cells) ==
    IF cells = <<>> THEN 0
    ELSE (IF Head(cells) THEN 1 ELSE 0) + CountTrue(Tail(cells))

\* a faulty variant: the pax of a leg taken from the group's first booking only
LegPaxFirstOnly(rows) == FillNa0(rows[1].passengercount)

\* agg(pax=("passengercount", "sum"))
LegPax(rows) == SumSkipNa(Col(rows, "passengercount"))

\* agg(revenue=("total_revenue", "sum"))
LegRevenue(rows) == SumSkipNa(Col(rows, "total_revenue"))

\* agg(cancels=("is_cancelled", "sum"))
LegCancels(rows) == CountTrue(Col(rows, "is_cancelled"))

\* booking.groupby([...], dropna=False).agg(pax, revenue, cancels).reset_index()
GroupLegs(t) ==
    LET keys == SortKeys({KeyOf(t[i]) : i \in 1..Len(t)})
    IN  [i \in 1..Len(keys) |->
            LET rows == GroupRows(t, keys[i])
            IN  [flightnumber |-> keys[i][1],
                 flight_date |-> keys[i][2],
                 origin |-> keys[i][3],
                 destination |-> keys[i][4],
                 pax |-> LegPax(rows),
                 revenue |-> LegRevenue(rows),
                 cancels |-> LegCancels(rows)]]

\* the Flight rows a leg row joins with on (flightnumber, flight_date) =
\* (flightnumber, flightdate); a null date matches a null date
FlightMatches(l, fl) ==
    SelectSeq(fl, LAMBDA f : f.fn = l.flightnumber /\ f.fdate = l.flight_date)

\* a leg row paired with the columns of one joined Flight row, or with nulls
Joined(l, cap, tod) == [l |-> l, cap |-> cap, tod |-> tod]

\* leg.merge(flight[...], left_on=[...], right_on=[...], how="left"):
\* a leg row without a match is kept with nulls, a leg row with several
\* matches is repeated once per match
RECURSIVE MergeLeft(_, _)
MergeLeft(legs, fl) ==
    IF legs = <<>> THEN <<>>
    ELSE LET l == Head(legs)
             m == FlightMatches(l, fl)
         IN  (IF m = <<>> THEN <<Joined(l, NaN, NaN)>>
              ELSE [i \in 1..Len(m) |-> Joined(l, m[i].cap, m[i].timeofday)])
             \o MergeLeft(Tail(legs), fl)

\* a faulty variant: load factor 0 instead of undefined
LoadFactorZero(pax, cap) == Where(GtZero(cap), FDiv(pax, cap), Num(0))

\* run_analysis: np.where(leg["availablecapacity"] > 0, pax / capacity, np.nan)
InsightsLoadFactor(pax, cap) == Where(GtZero(cap), FDiv(pax, cap), NaN)

\* run_analysis: np.where(leg["pax"] > 0, revenue / pax, np.nan)
InsightsRevPerPax(revenue, pax) == Where(GtZero(pax), FDiv(revenue, pax), NaN)

\* kpi_viz: np.where(leg["availablecapacity"] > 0, pax / capacity, np.nan)
KpiLoadFactor(pax, cap) == Where(GtZero(cap), FDiv(pax, cap), NaN)

\* kpi_viz: np.where(leg["pax"] > 0, revenue / pax, np.nan)
KpiRevPerPax(revenue, pax) == Where(GtZero(pax), FDiv(revenue, pax), NaN)

\* run_analysis, lines 104-114
InsightsLegTable(t, fl) ==
    LET m == MergeLeft(GroupLegs(t), fl)
    IN  [i \in 1..Len(m) |->
            LET l == m[i].l
            IN  [flightnumber |-> l.flightnumber, flight_date |-> l.flight_date,
                 origin |-> l.origin, destination |-> l.destination,
                 pax |-> l.pax, revenue |-> l.revenue, cancels |-> l.cancels,
                 availablecapacity |-> m[i].cap,
                 timeofday |-> m[i].tod,
                 load_factor |-> InsightsLoadFactor(l.pax, m[i].cap),
                 rev_per_pax |-> InsightsRevPerPax(l.revenue, l.pax)]]

\* kpi_viz.main, lines 162-187
KpiLegTable(t, fl) ==
    LET m == MergeLeft(GroupLegs(t), fl)
    IN  [i \in 1..Len(m) |->
            LET l == m[i].l
                cap == ToNumeric(m[i].cap)
            IN  [flightnumber |-> l.flightnumber, flight_date |-> l.flight_date,
                 origin |-> l.origin, destination |-> l.destination,
                 pax |-> l.pax, revenue |-> l.revenue, cancels |-> l.cancels,
                 dow |-> DayName(l.flight_date),
                 availablecapacity |-> cap,
                 load_factor |-> KpiLoadFactor(l.pax, cap),
                 rev_per_pax |-> KpiRevPerPax(l.revenue, l.pax)]]

NormFlights == [i \in 1..Len(flight) |-> FlightNormRow(flight[i])]

\* the comparison availablecapacity > 0 raises TypeError on a text cell:
\* run_analysis does not coerce the capacity column
InsightsLeg ==
    /\ run = "insights" /\ pc = "leg"
    /\ LET m == MergeLeft(GroupLegs(bk), NormFlights)
       IN  IF \/ missing \cap {"flightnumber", "availablecapacity", "timeofday", "routetype"} # {}
              \/ \E i \in 1..Len(m) : m[i].cap.k = "str"
           THEN /\ pc' = "raised"
                /\ leg' = leg
           ELSE /\ pc' = "tables"
                /\ leg' = InsightsLegTable(bk, NormFlights)
    /\ UNCHANGED <<booking, passenger, pg, flight, missing, legcsv, cfg, summary, files, run, bk, out, db>>

\* KeyError when a group key (line 163) or the capacity (line 185) is no column
KpiLeg ==
    /\ run = "kpi" /\ pc = "leg"
    /\ IF missing \cap {"flightnumber", "origin", "destination", "flightdate", "availablecapacity"} # {}
       THEN pc' = "raised" /\ leg' = leg
       ELSE /\ pc' = "metrics"
            /\ leg' = KpiLegTable(bk, NormFlights)
    /\ UNCHANGED <<booking, passenger, pg, flight, missing, legcsv, cfg, summary, files, run, bk, out, db>>

-----------------------------------------------------------------------------
(* Segment grain: the (origin, destination) tables of run_analysis and kpi_viz *)

SegLess(a, b) ==
    IF a[1] # b[1] THEN CellLess(a[1], b[1]) ELSE CellLess(a[2], b[2])

RECURSIVE SortSegs(_)
SortSegs(S) ==
    IF S = {} THEN <<>>
    ELSE LET m == CHOOSE x \in S : \A y \in S \ {x} : SegLess(x, y)
         IN  <<m>> \o SortSegs(S \ {m})

\* the (origin, destination) pairs of the leg table, sorted
Segments(l) == SortSegs({<<l[i].origin, l[i].destination>> : i \in 1..Len(l)})

\* the rows of a table on one segment
SegRows(t, sg) == SelectSeq(t, LAMBDA r : r.origin = sg[1] /\ r.destination = sg[2])

\* Series.count(): the cells that are not missing
CountNotNa(cells) == Len(DropNa(cells))

\* seg of run_analysis, lines 171-181: bookings, cancels, pax and revenue per
\* segment, cancel_rate, rev_per_pax and
\* anc_share = np.where(denom > 0, num / denom, np.nan)
InsightsAncShare(num, denom) == Where(GtZero(denom), FDiv(num, denom), NaN)

InsightsSeg(t) ==
    LET segs == Segments(t)
    IN  [s \in 1..Len(segs) |->
            LET rows == SegRows(t, segs[s])
                bookings == CountNotNa(Col(rows, "bookingid_norm"))
                cancels == CountTrue(Col(rows, "is_cancelled"))
                pax == SumSkipNa(Col(rows, "passengercount"))
                revenue == SumSkipNa(Col(rows, "total_revenue"))
            IN  [origin |-> segs[s][1], destination |-> segs[s][2],
                 bookings |-> bookings, cancels |-> cancels,
                 pax |-> pax, revenue |-> revenue,
                 cancel_rate |-> Where(bookings > 0, FDiv(Num(cancels), Num(bookings)), NaN),
                 rev_per_pax |-> Where(GtZero(pax), FDiv(revenue, pax), NaN),
                 anc_share |-> InsightsAncShare(SumSkipNa(Col(rows, "ancillary_total")), revenue)]]

\* seg of kpi_viz, lines 246-252:
\* aras = np.where(revenue > 0, ancillary / revenue, np.nan)
KpiAras(ancillary, revenue) == Where(GtZero(revenue), FDiv(ancillary, revenue), NaN)

KpiSeg(t) ==
    LET segs == Segments(t)
    IN  [s \in 1..Len(segs) |->
            LET rows == SegRows(t, segs[s])
                revenue == SumSkipNa(Col(rows, "total_revenue"))
                ancillary == SumSkipNa(Col(rows, "ancillary_total"))
            IN  [origin |-> segs[s][1], destination |-> segs[s][2],
                 revenue |-> revenue, ancillary |-> ancillary,
                 aras |-> KpiAras(ancillary, revenue)]]

\* a faulty variant: a missing reverse segment counts as load factor 0
ImbReverseZero(lf, rev) == FSub(lf, FillNa0(rev))

\* imb["lf_diff_vs_reverse"] = imb["load_factor"] - imb["load_factor_rev"]
LfDiffVsReverse(lf, rev) == FSub(lf, rev)

\* imb of run_analysis, lines 184-187: the mean load factor per segment,
\* left-merged with the same table under swapped origin and destination
Imb(l) ==
    LET segs == Segments(l)
    IN  [s \in 1..Len(segs) |->
            LET lf == Mean(Col(SegRows(l, segs[s]), "load_factor"))
                back == SegRows(l, <<segs[s][2], segs[s][1]>>)
                rev == IF back = <<>> THEN NaN ELSE Mean(Col(back, "load_factor"))
            IN  [origin |-> segs[s][1], destination |-> segs[s][2],
                 load_factor |-> lf, load_factor_rev |-> rev,
                 lf_diff_vs_reverse |-> LfDiffVsReverse(lf, rev)]]

-----------------------------------------------------------------------------
(* KPI Calculator of kpi_viz.main: FWLF, CALF and PACS by day of week *)

\* the rows of a table whose dow column is the given weekday
OnDow(t, name) == SelectSeq(t, LAMBDA r : r.dow = Day(name))

\* a faulty variant: the plain average of the legs' load factors
FwlfMeanOfRatios(rows) == Mean(Col(rows, "load_factor"))

\* the lambda of fwlf_dow: sum(pax) / sum(capacity) if sum(capacity) > 0 else nan
Fwlf(rows) ==
    LET cap == SumSkipNa(Col(rows, "availablecapacity"))
    IN  IF GtZero(cap) THEN FDiv(SumSkipNa(Col(rows, "pax")), cap) ELSE NaN

\* leg.groupby("dow").apply(...).reindex(DOW_ORDER).rename("fwlf").reset_index()
FwlfDow(l) ==
    [i \in 1..Len(DOW_ORDER) |->
        [dow |-> Day(DOW_ORDER[i]),
         fwlf |-> IF OnDow(l, DOW_ORDER[i]) = <<>> THEN NaN ELSE Fwlf(OnDow(l, DOW_ORDER[i]))]]

\* realized: booking.assign(realized_pax = passengercount.fillna(0) - is_cancelled)
\* .groupby(["flightnumber", "flight date"]).agg(sum), joined to a leg on
\* (flightnumber, flight date); the groupby drops the rows without a date
RealizedPax(t, l) ==
    LET rows == SelectSeq(t, LAMBDA r : r.flightnumber = l.flightnumber
                                        /\ r.flight_date = l.flight_date)
    IN  IF IsNA(l.flight_date) THEN NaN
        ELSE SumSkipNa([i \in 1..Len(rows) |->
                FSub(FillNa0(rows[i].passengercount),
                     Num(IF rows[i].is_cancelled THEN 1 ELSE 0))])

\* leg2["calf"] = np.where(capacity > 0, realized_pax / capacity, np.nan)
Calf(t, l) ==
    Where(GtZero(l.availablecapacity), FDiv(RealizedPax(t, l), l.availablecapacity), NaN)

\* leg2.groupby("dow")["calf"].mean().reindex(DOW_ORDER).reset_index()
CalfDow(t, l) ==
    [i \in 1..Len(DOW_ORDER) |->
        LET rows == OnDow(l, DOW_ORDER[i])
        IN  [dow |-> Day(DOW_ORDER[i]),
             calf |-> Mean([j \in 1..Len(rows) |-> Calf(t, rows[j])])]]

\* variable_cost_per_seat_leg = 40.0
VariableCostPerSeatLeg == 40

\* connection_value_pct = 0.25
ConnectionValuePct == Rat(25, 100)

IsSegment(r, o, d) == r.origin = Str(o) /\ r.destination = Str(d)

\* fco_pmo.groupby("dow")["revenue"].mean().to_dict() if not fco_pmo.empty else {}
\* dow is a Categorical here.  A groupby on a categorical key keeps the
\* weekdays without a row, with mean NaN, when observed=False (the default
\* of pandas before 3.0) and leaves them out when observed=True (the default
\* from 3.0 on).
OnwardRevMap(l, observed) ==
    LET fco_pmo == SelectSeq(l, LAMBDA r : IsSegment(r, <<"F", "C", "O">>, <<"P", "M", "O">>))
        days == {DOW_ORDER[i] : i \in 1..Len(DOW_ORDER)}
        keys == IF fco_pmo = <<>> THEN {}
                ELSE IF observed THEN {d \in days : OnDow(fco_pmo, d) # <<>>}
                ELSE days
    IN  [d \in keys |-> Mean(Col(OnDow(fco_pmo, d), "revenue"))]

\* onward_rev_map.get(r["dow"], 0.0)
MapGet(map, dow) ==
    IF dow.k = "day" /\ dow.name \in DOMAIN map THEN map[dow.name] ELSE Num(0)

\* the body of the loop over leg.iterrows(), lines 232-239
Pacs(r, map, pct, cost) ==
    LET rev == IF IsSegment(r, <<"F", "R", "A">>, <<"F", "C", "O">>)
               THEN FAdd(r.revenue, FMul(pct, MapGet(map, r.dow)))
               ELSE r.revenue
        seats == IF ~IsNA(r.availablecapacity) THEN r.availablecapacity ELSE Num(0)
    IN  IF seats # Num(0) /\ GtZero(seats)
        THEN FDiv(FSub(rev, FMul(seats, cost)), seats)
        ELSE NaN

PacsVals(l, observed) ==
    [i \in 1..Len(l) |->
        [dow |-> l[i].dow,
         pacs |-> Pacs(l[i], OnwardRevMap(l, observed), ConnectionValuePct,
                       Num(VariableCostPerSeatLeg))]]

\* pd.DataFrame(pacs_vals).groupby("dow")["pacs"].mean().reindex(DOW_ORDER).reset_index()
PacsDow(vals) ==
    [i \in 1..Len(DOW_ORDER) |->
        [dow |-> Day(DOW_ORDER[i]),
         pacs |-> Mean(Col(OnDow(vals, DOW_ORDER[i]), "pacs"))]]

\* kpi_viz.main, lines 189-240
KpiMetrics ==
    /\ run = "kpi" /\ pc = "metrics"
    /\ \E observed \in BOOLEAN :
        LET vals == PacsVals(leg, observed)
        IN  out' = [fwlf_dow |-> FwlfDow(leg),
                    seg |-> KpiSeg(bk),
                    realized_pax |-> [i \in 1..Len(leg) |-> RealizedPax(bk, leg[i])],
                    calf_dow |-> CalfDow(bk, leg),
                    pacs_vals |-> vals,
                    pacs_dow |-> PacsDow(vals)]
    /\ pc' = "table"
    /\ UNCHANGED <<booking, passenger, pg, flight, missing, legcsv, cfg, summary, files, run, bk, leg, db>>

\* fwlf_dow.merge(pacs_dow, on="dow", how="outer").merge(calf_dow, on="dow", how="outer")
\* The three frames hold the same seven keys.  An outer merge returns the
\* keys sorted lexicographically (documented, and enforced from pandas 2.2
\* on) or in the order of the left frame (earlier versions).
KpiTbl(o, sorted) ==
    LET order == IF sorted THEN DowSorted ELSE DOW_ORDER
        row(t, d) == t[CHOOSE i \in 1..Len(t) : t[i].dow = Day(d)]
    IN  [i \in 1..Len(order) |->
            [dow |-> Day(order[i]),
             FWLF |-> row(o.fwlf_dow, order[i]).fwlf,
             PACS |-> row(o.pacs_dow, order[i]).pacs,
             CALF |-> row(o.calf_dow, order[i]).calf]]

\* the charts of lines 274-343, then the table of line 351
KpiFiles ==
    <<"fwlf_calf_by_dow.png", "pacs_by_dow.png", "aras_by_route_top10.png",
      "dashboard_composite.png", "kpi_summary_by_dow.csv">>

\* kpi_viz.main, lines 256-351
KpiTable ==
    /\ run = "kpi" /\ pc = "table"
    /\ \E sorted \in BOOLEAN :
        out' = [kpi_summary_by_dow |-> KpiTbl(out, sorted)] @@ out
    /\ files' = KpiFiles
    /\ pc' = "end"
    /\ UNCHANGED <<booking, passenger, pg, flight, missing, legcsv, cfg, summary, run, bk, leg, db>>

-----------------------------------------------------------------------------
(* Weekday tables of run_analysis, lines 117-168 *)

\* groupby("flight_dow").size(): the bookings (or the cancelled bookings) on a weekday
CountRows(t, name, cancelledOnly) ==
    Len(SelectSeq(t, LAMBDA r : r.flight_dow = Day(name) /\ (cancelledOnly => r.is_cancelled)))

\* cxl_rate_by_dow: bookings and cancellations by flight_dow, reindexed to
\* dow_order, with cancel_rate = np.where(bookings > 0, cancel_count / bookings, nan)
CxlRateByDow(t) ==
    [i \in 1..Len(DOW_ORDER) |->
        LET n == CountRows(t, DOW_ORDER[i], FALSE)
            c == CountRows(t, DOW_ORDER[i], TRUE)
        IN  [flight_dow |-> Day(DOW_ORDER[i]),
             bookings |-> n,
             cancel_count |-> c,
             cancel_rate |-> Where(n > 0, FDiv(Num(c), Num(n)), NaN)]]

\* a sequence holding the elements of a finite set, in some order
RECURSIVE SetToSeq(_)
SetToSeq(S) ==
    IF S = {} THEN <<>>
    ELSE LET x == CHOOSE y \in S : TRUE IN <<x>> \o SetToSeq(S \ {x})

\* lf_by_date then lf_by_dow: the mean load factor per flight date, then the
\* mean of those per weekday, reindexed to dow_order
LfByDow(l) ==
    [i \in 1..Len(DOW_ORDER) |->
        LET dates == SetToSeq({l[j].flight_date : j \in {j \in 1..Len(l) :
                                    DayName(l[j].flight_date) = Day(DOW_ORDER[i])}})
        IN  [dow |-> Day(DOW_ORDER[i]),
             avg_load_factor |->
                Mean([d \in 1..Len(dates) |->
                        Mean(Col(SelectSeq(l, LAMBDA r : r.flight_date = dates[d]),
                                 "load_factor"))])]]

\* lf_seg_dow['origin'] + '→' + lf_seg_dow['destination']
SegmentLabel(sg) == Str(sg[1].s \o <<"→">> \o sg[2].s)

RECURSIVE Flatten(_)
Flatten(ss) == IF ss = <<>> THEN <<>> ELSE Head(ss) \o Flatten(Tail(ss))

\* leg.groupby(['origin', 'destination', 'dow'])['load_factor'].mean().reset_index():
\* one row per (origin, destination, weekday) that has a leg, the weekday a
\* string at this point, so the rows of a segment are in the order of the
\* sorted day names; legs without a date are dropped
LfSegDow(l) ==
    LET segs == Segments(l)
    IN  Flatten([s \in 1..Len(segs) |->
            LET rowsOn(d) == SelectSeq(l, LAMBDA r : /\ r.origin = segs[s][1]
                                                     /\ r.destination = segs[s][2]
                                                     /\ DayName(r.flight_date) = Day(d))
                days == SelectSeq(DowSorted, LAMBDA d : rowsOn(d) # <<>>)
            IN  [i \in 1..Len(days) |->
                    [origin |-> segs[s][1], destination |-> segs[s][2],
                     dow |-> Day(days[i]),
                     load_factor |-> Mean(Col(rowsOn(days[i]), "load_factor")),
                     segment |-> SegmentLabel(segs[s])]]])

\* lf_seg_dow.pivot_table(index='dow', columns='segment', values='load_factor',
\* aggfunc='mean').sort_index(): the weekdays (now a Categorical, so in
\* dow_order) and segments that have a load factor; dropna=True drops the rest
LfSegDowWide(long) ==
    LET have == SelectSeq(long, LAMBDA r : ~IsNA(r.load_factor))
        days == SelectSeq(DOW_ORDER, LAMBDA d : \E i \in 1..Len(have) : have[i].dow = Day(d))
        labels == {have[i].segment : i \in 1..Len(have)}
    IN  [i \in 1..Len(days) |->
            [dow |-> Day(days[i]),
             values |-> [g \in labels |->
                Mean(Col(SelectSeq(have, LAMBDA r : r.dow = Day(days[i]) /\ r.segment = g),
                         "load_factor"))]]]

\* the files of lines 167-168 and 197-207, then the charts of lines 210-276
InsightsTableFiles ==
    <<"lf_by_segment_by_dow_long.csv", "lf_by_segment_by_dow_wide.csv",
      "cancellation_by_dow.csv", "cancellation_days_after_booking.csv",
      "cancellation_days_before_flight.csv", "cancellation_by_channel.csv",
      "lf_by_dow.csv", "lf_by_time_of_day.csv", "segment_kpis.csv",
      "directional_imbalance.csv", "rev_lf_correlation.csv",
      "booking_clean.csv", "leg_table.csv">>

InsightsChartFiles ==
    <<"cxl_by_dow_count.png", "cxl_by_dow_rate.png", "cxl_days_after_booking.png",
      "cxl_days_before_flight.png", "lf_by_dow.png", "lf_by_time_of_day.png",
      "lf_by_segment_by_dow.png", "rev_per_pax_vs_lf.png", "anc_share_top_segments.png">>

\* run_analysis, lines 117-276: the tables, their files and the charts
InsightsTables ==
    /\ run = "insights" /\ pc = "tables"
    /\ leg' = [i \in 1..Len(leg) |-> [dow |-> DayName(leg[i].flight_date)] @@ leg[i]]
    /\ out' = [cxl_rate_by_dow |-> CxlRateByDow(bk),
               lf_by_dow |-> LfByDow(leg),
               lf_seg_dow |-> LfSegDow(leg),
               lf_seg_dow_wide |-> LfSegDowWide(LfSegDow(leg)),
               seg |-> InsightsSeg(bk),
               imb |-> Imb(leg)]
    /\ files' = InsightsTableFiles \o InsightsChartFiles
    /\ pc' = "report"
    /\ UNCHANGED <<booking, passenger, pg, flight, missing, legcsv, cfg, summary, run, bk, db>>

\* Series.idxmin() / idxmax() of a column without a single value: NaN (and
\* then KeyError in .loc) up to pandas 2, ValueError from pandas 3
IdxMinRaises(cells) == DropNa(cells) = <<>>

\* run_analysis, lines 278-351: the insight lines and insights.md.  Line 308
\* takes lf_by_dow["avg_load_factor"].idxmin() without a guard.
InsightsReport ==
    /\ run = "insights" /\ pc = "report"
    /\ IF IdxMinRaises(Col(out.lf_by_dow, "avg_load_factor"))
       THEN pc' = "raised" /\ files' = files
       ELSE pc' = "end" /\ files' = files \o <<"insights.md">>
    /\ UNCHANGED <<booking, passenger, pg, flight, missing, legcsv, cfg, summary, run, bk, leg, out, db>>

\* the tables of run_analysis have been computed
InsightsTablesDone == run = "insights" /\ pc \in {"report", "end"}

-----------------------------------------------------------------------------
(* DuckDB path: build_views.py and compute_metrics.py *)

\* SELECT 25.0 AS variable_cost_per_seat_leg
BuildViewsCost == 25

\* SELECT ... 0.15 AS connection_value_pct
BuildViewsPct == Rat(15, 100)

\* build_views.py, lines 6-7: CREATE OR REPLACE TABLE config.params
BuildViews ==
    /\ run = "idle"
    /\ run' = "build_views"
    /\ pc' = "end"
    /\ db' = [db EXCEPT !.params = [cost |-> Num(BuildViewsCost), pct |-> BuildViewsPct]]
    /\ UNCHANGED <<booking, passenger, pg, flight, missing, legcsv, cfg, summary, files, bk, leg, out>>

\* compute_metrics.py, lines 3-11: the macros are redefined from metrics.yaml
ComputeMetrics ==
    /\ run = "build_views" /\ pc = "end"
    /\ run' = "compute_metrics"
    /\ db' = [db EXCEPT !.macros = [cost |-> cfg.cost, pct |-> cfg.pct]]
    /\ UNCHANGED <<booking, passenger, pg, flight, missing, legcsv, cfg, summary, files, pc, bk, leg, out>>

-----------------------------------------------------------------------------
(* Data-Quality Detector: dq_checks, lines 70-142.  The checks on the      *)
(* reservation date, the Passenger sheet and the routing text read columns *)
(* that the Booking rows of this model do not carry.                       *)

\* booking.groupby([...], dropna=False).agg(pax=("passengercount", "sum"))
DqGroupLegs(t) ==
    LET keys == SortKeys({KeyOf(t[i]) : i \in 1..Len(t)})
    IN  [i \in 1..Len(keys) |->
            [flightnumber |-> keys[i][1],
             flight_date |-> keys[i][2],
             origin |-> keys[i][3],
             destination |-> keys[i][4],
             pax |-> LegPax(GroupRows(t, keys[i]))]]

\* dq_checks, lines 111-117
DqLegTable(t, fl) ==
    LET m == MergeLeft(DqGroupLegs(t), fl)
    IN  [i \in 1..Len(m) |->
            LET l == m[i].l
            IN  [flightnumber |-> l.flightnumber, flight_date |-> l.flight_date,
                 origin |-> l.origin, destination |-> l.destination,
                 pax |-> l.pax, availablecapacity |-> m[i].cap]]

\* booking['total_revenue'] = booking[REV_COLS].sum(axis=1, skipna=True)
DqWithTotal(r) ==
    [total_revenue |-> DqTotalRevenue(r.rev_ticket, r.rev_pre, r.rev_at)] @@ r

\* booking.duplicated(subset=dup_cols, keep=False) for row i
DqDuplicated(t, i) ==
    \E j \in 1..Len(t) :
        /\ j # i
        /\ t[j].bookingid_norm = t[i].bookingid_norm
        /\ KeyOf(t[j]) = KeyOf(t[i])

\* a < b on two datetime cells; a comparison with NaT is False
DateLess(a, b) == a.k = "date" /\ b.k = "date" /\ a.v < b.v

\* astype(str).str.upper().str.replace(' ', '')
NoSpaceUpper(x) == SelectSeq(Upper(PyStr(x)), LAMBDA c : c # " ")

\* the separator of line 126: the three characters U+00E2 U+2020 U+2019 that
\* the source file holds (an arrow read in the wrong encoding), each written
\* here by its name
Sep2 == <<"a-circumflex", "dagger", "right-quote">>

\* check 7, lines 124-127: the routing text differs from origin-destination
\* and from origin + Sep2 + destination
DqRoutingInconsistent(r) ==
    LET routing_upper == NoSpaceUpper(r.routing)
        od1 == NoSpaceUpper(r.origin) \o <<"-">> \o NoSpaceUpper(r.destination)
        od2 == NoSpaceUpper(r.origin) \o Sep2 \o NoSpaceUpper(r.destination)
    IN  ~(routing_upper = od1 \/ routing_upper = od2)

\* check 3, lines 89-97: groupby('bookingid_norm')[f].nunique(dropna=False) > 1
DqMultiValued(ps, f) ==
    SelectSeq(ps, LAMBDA p : /\ ~IsNA(p.bookingid_norm)
                             /\ \E j \in 1..Len(ps) : /\ ps[j].bookingid_norm = p.bookingid_norm
                                                      /\ ps[j][f] # p[f])

\* a faulty variant: every cancelled booking, whatever its passenger count
DqCancelledAnyPax(r) == ~IsNA(r.cancellation_date)

\* check 9, line 136
DqCancellationWithPositivePax(r) == ~IsNA(r.cancellation_date) /\ GtZero(r.passengercount)

\* the anomaly sets of dq_checks, by name
DqAnomalies(b, ps, l) ==
    [canceled_with_checkin_ancillary |->
        SelectSeq(b, LAMBDA r : ~IsNA(r.cancellation_date) /\ GtZero(r.rev_at)),
     cancellation_before_reservation |->
        SelectSeq(b, LAMBDA r : DateLess(r.cancellation_date, r.reservation_date)),
     reservation_after_flight |->
        SelectSeq(b, LAMBDA r : DateLess(r.flight_date, r.reservation_date)),
     same_booking_multiple_channels |-> DqMultiValued(ps, "channel"),
     same_booking_multiple_devices |-> DqMultiValued(ps, "device"),
     revenue_with_zero_passengers |->
        SelectSeq(b, LAMBDA r : r.passengercount = Num(0) /\ GtZero(r.total_revenue)),
     negative_revenue_fields |->
        SelectSeq(b, LAMBDA r : LtZero(r.rev_ticket) \/ LtZero(r.rev_pre) \/ LtZero(r.rev_at)),
     negative_passengers |->
        SelectSeq(b, LAMBDA r : LtZero(r.passengercount)),
     pax_exceeds_capacity |->
        SelectSeq(l, LAMBDA r : FGt(r.pax, r.availablecapacity) /\ ~IsNA(r.availablecapacity)),
     missing_capacity_for_leg |->
        SelectSeq(l, LAMBDA r : IsNA(r.availablecapacity)),
     capacity_out_of_range |->
        SelectSeq(l, LAMBDA r : /\ ~IsNA(r.availablecapacity)
                                /\ \/ FGt(Num(160), r.availablecapacity)
                                   \/ FGt(r.availablecapacity, Num(200))),
     routing_inconsistent_with_od |->
        SelectSeq(b, DqRoutingInconsistent),
     duplicate_legs_within_pnr |->
        LET idx == SelectSeq([i \in 1..Len(b) |-> i], LAMBDA i : DqDuplicated(b, i))
        IN  [i \in 1..Len(idx) |-> b[idx[i]]],
     cancellation_with_positive_pax |->
        SelectSeq(b, DqCancellationWithPositivePax),
     missing_flight_date |->
        SelectSeq(b, LAMBDA r : IsNA(r.flight_date))]

\* the checks in the order dq_checks enters them into its result
DqCheckOrder ==
    <<"canceled_with_checkin_ancillary", "cancellation_before_reservation",
      "reservation_after_flight", "same_booking_multiple_channels",
      "same_booking_multiple_devices", "revenue_with_zero_passengers",
      "negative_revenue_fields", "negative_passengers", "pax_exceeds_capacity",
      "missing_capacity_for_leg", "capacity_out_of_range",
      "routing_inconsistent_with_od", "duplicate_legs_within_pnr",
      "cancellation_with_positive_pax", "missing_flight_date">>

\* the columns a check is guarded by (the `if {...}.issubset(...)` of lines
\* 74, 79, 84, 89 and 94); the other checks have no guard
DqGuard(name) ==
    CASE name = "canceled_with_checkin_ancillary" ->
            {"cancellation_date", "revenue_per_booking_(ancilliary_at_check_in)"}
      [] name = "cancellation_before_reservation" -> {"cancellation_date", "reservation_date"}
      [] name = "reservation_after_flight" -> {"reservation_date", "flight_date"}
      [] name = "same_booking_multiple_channels" -> {"booking_channel"}
      [] name = "same_booking_multiple_devices" -> {"device_used"}
      [] OTHER -> {}

\* the checks that dq_checks executes on sheets without the columns m
DqExecuted(m) == SelectSeq(DqCheckOrder, LAMBDA name : DqGuard(name) \cap m = {})

\* the columns that dq_checks reads without a guard (lines 100-140)
DqUnguardedColumns ==
    {"revenue_per_booking_(ticket)", "revenue_per_booking_(ancilliary_pre_check_in)",
     "revenue_per_booking_(ancilliary_at_check_in)", "passengercount",
     "flightnumber", "flight_date", "origin", "destination",
     "flightdate", "availablecapacity", "routing", "cancellation_date"}

\* a faulty variant: the summary in the order of the checks, not sorted
DqSummaryUnsorted(rows) == rows

\* sort_values(by="count", ascending=False) of the check/count rows; rows of
\* equal count keep their order
RECURSIVE DqSortByCount(_)
DqSortByCount(rows) ==
    IF rows = <<>> THEN <<>>
    ELSE LET i == CHOOSE i \in 1..Len(rows) :
                    /\ \A j \in 1..Len(rows) : rows[j].count <= rows[i].count
                    /\ \A j \in 1..(i - 1) : rows[j].count < rows[i].count
         IN  <<rows[i]>> \o DqSortByCount(SubSeq(rows, 1, i - 1) \o SubSeq(rows, i + 1, Len(rows)))

\* main, lines 157-158: summary = {k: len(v)}, as a frame sorted by count
DqSummary(anomalies, names) ==
    DqSortByCount([i \in 1..Len(names) |-> [check |-> names[i], count |-> Len(anomalies[names[i]])]])

\* main, lines 158-162: dq_summary.csv, then one file per anomaly set
DqFiles(names) == <<"dq_summary.csv">> \o names

\* main, lines 154-162: dq_checks, the summary and the files.  A column that
\* is read without a guard raises KeyError when the sheet does not have it;
\* leg['pax'] > leg['availablecapacity'] raises TypeError on a text cell.
\* Both happen inside dq_checks, before anything is written.
DqChecks ==
    /\ run = "dq" /\ pc = "checks"
    /\ LET b == [i \in 1..Len(bk) |-> DqWithTotal(bk[i])]
           ps == pg
           l == DqLegTable(b, NormFlights)
           names == DqExecuted(missing)
           all == DqAnomalies(b, ps, l)
           anomalies == [n \in {names[i] : i \in 1..Len(names)} |-> all[n]]
       IN  IF \/ missing \cap DqUnguardedColumns # {}
              \/ \E i \in 1..Len(l) : l[i].availablecapacity.k = "str"
           THEN /\ pc' = "raised"
                /\ UNCHANGED <<bk, leg, out, summary, files>>
           ELSE /\ pc' = "end"
                /\ bk' = b
                /\ leg' = l
                /\ out' = anomalies
                /\ summary' = DqSummary(anomalies, names)
                /\ files' = DqFiles(names)
    /\ UNCHANGED <<booking, passenger, pg, flight, missing, legcsv, cfg, run, db>>

-----------------------------------------------------------------------------
(* visualize.py: the scatter of revenue per passenger against load factor *)

\* leg['rev_per_pax'] = leg['total_revenue'] / leg['pax']
VisualizeRevPerPax(revenue, pax) == FDiv(revenue, pax)

Visualize ==
    /\ run = "idle"
    /\ run' = "visualize"
    /\ pc' = "end"
    /\ leg' = [i \in 1..Len(legcsv) |->
                  [rev_per_pax |-> VisualizeRevPerPax(legcsv[i].total_revenue, legcsv[i].pax)]
                  @@ legcsv[i]]
    /\ UNCHANGED <<booking, passenger, pg, flight, missing, legcsv, cfg, summary, files, bk, out, db>>

-----------------------------------------------------------------------------
(* Inputs *)

FRA == <<"F", "R", "A">>
FCO == <<"F", "C", "O">>
PMO == <<"P", "M", "O">>

\* a Booking row as read from the sheet, with an empty reservation date and
\* an empty routing cell
BRow(id, fn, fdate, org, dst, pax, rt, rpre, rat, cxl) ==
    [id |-> id, fn |-> fn, fdate |-> fdate, org |-> org, dst |-> dst,
     pax |-> pax, rt |-> rt, rpre |-> rpre, rat |-> rat, cxl |-> cxl,
     res |-> NaT, routing |-> NaN]

\* a Flight row as read from the sheet
FRow(fn, fdate, cap) ==
    [fn |-> fn, fdate |-> fdate, cap |-> cap, timeofday |-> Str(<<"A", "M">>)]

\* all sequences over S of length lo..hi
SeqsOf(S, lo, hi) == UNION {[1..n -> S] : n \in lo..hi}

NoConfig == [cost |-> NaN, pct |-> NaN]

\* sheets with every column, and no Passenger rows
PlainSheets == passenger = <<>> /\ missing = {}

\* no entry point has started
Idle ==
    /\ run = "idle" /\ pc = "start"
    /\ bk = <<>> /\ pg = <<>> /\ leg = <<>> /\ out = EmptyOut
    /\ summary = <<>> /\ files = <<>>
    /\ db = [params |-> NoConfig, macros |-> NoConfig]

-----------------------------------------------------------------------------
(* SpecNorm: booking ids and revenue cells of every shape through the      *)
(* three normalizers and the total_revenue derivations                     *)

MaxIdLen == 3

IdChars == {"1", "2", "A", "-", " "}

IdInputs ==
    {NaN} \cup {Str(s) : s \in SeqsOf(IdChars, 0, MaxIdLen)}
          \cup {[k |-> "int", v |-> 7], [k |-> "int", v |-> 120], Num(12)}

InitIds ==
    /\ booking \in {<<BRow(x, 100, Date(1), Str(FRA), Str(FCO), Num(1),
                          Num(10), Num(0), Num(0), NaT)>> : x \in IdInputs}
    /\ flight = <<FRow(100, Date(1), Num(180))>>
    /\ legcsv = <<>>
    /\ cfg = NoConfig
    /\ PlainSheets
    /\ Idle

MaxRev == 2

\* a revenue cell: empty, text that is no number, text that is one, a number
RevCells ==
    {NaN, Str(<<"A">>), Str(<<"1", "2">>)} \cup {Num(v) : v \in -1..MaxRev}

InitRev ==
    /\ booking \in {<<BRow(Str(<<"1">>), 100, Date(1), Str(FRA), Str(FCO), Num(1),
                          rt, rpre, rat, NaT)>> : rt \in RevCells, rpre \in RevCells, rat \in RevCells}
    /\ flight = <<FRow(100, Date(1), Num(180))>>
    /\ legcsv = <<>>
    /\ cfg = NoConfig
    /\ PlainSheets
    /\ Idle

InitNorm == InitIds \/ InitRev

NextNorm == InsightsNormalize \/ KpiNormalize \/ DqAddDerived \/ DqChecks

SpecNorm == InitNorm /\ [][NextNorm]_vars

IsDigitText(y) == y.k = "str" /\ y.s # <<>> /\ \A i \in 1..Len(y.s) : y.s[i] \in Digits

\* C7: every normalized booking id is missing or a non-empty digits-only
\* text; a missing id and an id without a digit give missing; normalizing
\* the result again changes nothing; a digits-only id comes back unchanged;
\* the three copies of normalize_booking_id agree on the id.
C7_NormalizeBookingId ==
    run \in {"insights", "kpi", "dq"} =>
        \A i \in 1..Len(bk) :
            LET x == booking[i].id
                y == bk[i].bookingid_norm
            IN  /\ y = NaN \/ IsDigitText(y)
                /\ (IsNA(x) \/ \A j \in 1..Len(PyStr(x)) : PyStr(x)[j] \notin Digits) => y = NaN
                /\ InsightsNormalizeBookingId(y) = y
                /\ DqNormalizeBookingId(y) = y
                /\ KpiNormalizeBookingId(y) = y
                /\ IsDigitText(x) => y = x
                /\ InsightsNormalizeBookingId(x) = y
                /\ DqNormalizeBookingId(x) = y
                /\ KpiNormalizeBookingId(x) = y

\* the id "1-2" has been normalized to "12" by kpi_viz
C7_Witness ==
    /\ run = "kpi"
    /\ booking[1].id = Str(<<"1", "-", "2">>)
    /\ bk[1].bookingid_norm = Str(<<"1", "2">>)

\* a revenue component as the claim counts it: its number, 0 when it is
\* missing or unparseable
Counted(x) == IF IsNum(ToNumeric(x)) THEN ToNumeric(x) ELSE Num(0)

\* C1: in every entry point that derives it, a booking's total_revenue is the
\* sum of its three revenue components, each missing or unparseable
\* component counted as 0.
C1_TotalRevenue ==
    \A i \in 1..Len(bk) :
        "total_revenue" \in DOMAIN bk[i] =>
            bk[i].total_revenue =
                FAdd(FAdd(Counted(booking[i].rt), Counted(booking[i].rpre)),
                     Counted(booking[i].rat))

\* dq_checks has derived total_revenue 2 from an empty, an unparseable and a
\* numeric component
C1_Witness ==
    /\ run = "dq" /\ pc = "end"
    /\ booking[1].rt = NaN
    /\ booking[1].rpre = Str(<<"A">>)
    /\ booking[1].rat = Num(2)
    /\ bk[1].total_revenue = Num(2)

-----------------------------------------------------------------------------
(* SpecLeg: the leg tables of run_analysis and kpi_viz over small Booking  *)
(* and Flight sheets, and visualize.py over small leg_detail.csv files     *)

MaxBookings == 2
MaxFlights == 2

\* Booking rows of flight 100 on day 1 from FRA, to FCO or to PMO
LegBookingRows ==
    {BRow(Str(<<"1">>), 100, Date(1), Str(FRA), Str(dst), pax, Num(rc[1]), Num(0), Num(0), rc[2]) :
        dst \in {FCO, PMO},
        pax \in {NaN, Num(0), Num(50), Num(60)},
        rc \in {<<100, NaT>>, <<40, Date(1)>>}}

\* Flight rows of flight 100: day 1 with several capacities, and day 2
LegFlightRows ==
    {FRow(100, Date(1), cap) : cap \in {NaN, Num(0), Num(200)}}
        \cup {FRow(100, Date(2), Num(180)), FRow(100, Date(1), Num(-5))}

\* rows of leg_detail.csv
CsvRows ==
    {[total_revenue |-> rev, pax |-> pax] :
        rev \in {NaN, Num(0), Num(100)}, pax \in {NaN, Num(0), Num(2)}}

InitLeg ==
    /\ \/ /\ booking \in SeqsOf(LegBookingRows, 1, MaxBookings)
          /\ flight \in {<<>>, <<FRow(100, Date(1), Num(200))>>}
          /\ legcsv = <<>>
       \/ /\ booking \in {<<r>> : r \in LegBookingRows}
          /\ flight \in SeqsOf(LegFlightRows, 0, MaxFlights)
          /\ legcsv = <<>>
       \/ /\ booking = <<BRow(Str(<<"1">>), 100, Date(1), Str(FRA), Str(FCO), Num(1),
                              Num(10), Num(0), Num(0), NaT)>>
          /\ flight = <<>>
          /\ legcsv \in SeqsOf(CsvRows, 1, MaxBookings)
    /\ cfg = NoConfig
    /\ PlainSheets
    /\ Idle

NextLeg == InsightsNormalize \/ InsightsLeg \/ KpiNormalize \/ KpiLeg \/ Visualize

SpecLeg == InitLeg /\ [][NextLeg]_vars

\* a leg table of run_analysis or kpi_viz has been built
LegBuilt == run \in {"insights", "kpi"} /\ pc \in {"tables", "metrics"}

\* C2: a leg's load_factor is pax / capacity when the joined capacity is
\* present and > 0, and is the undefined value, neither 0 nor an exception,
\* when the capacity is missing or <= 0.
C2_LoadFactor ==
    /\ pc # "raised"
    /\ LegBuilt =>
        \A i \in 1..Len(leg) :
            LET c == leg[i].availablecapacity
                p == leg[i].pax
            IN  IF IsNum(c) /\ c.n > 0
                THEN leg[i].load_factor = Rat(p.n * c.d, p.d * c.n)
                ELSE leg[i].load_factor = NaN

\* kpi_viz has built a leg with 50 passengers and capacity 0, load factor undefined
C2_Witness ==
    /\ run = "kpi" /\ pc = "metrics"
    /\ \E i \in 1..Len(leg) :
        /\ leg[i].availablecapacity = Num(0)
        /\ leg[i].pax = Num(50)
        /\ leg[i].load_factor = NaN

\* C3: revenue per passenger is revenue / pax when pax > 0 and the undefined
\* value when pax is zero or missing, on every path that derives it from a
\* leg's revenue and pax.
C3_RevPerPax ==
    \A i \in 1..Len(leg) :
        "rev_per_pax" \in DOMAIN leg[i] =>
            LET p == leg[i].pax
                r == IF "revenue" \in DOMAIN leg[i] THEN leg[i].revenue
                     ELSE leg[i].total_revenue
            IN  IF IsNum(p) /\ p.n > 0
                THEN leg[i].rev_per_pax = FDiv(r, p)
                ELSE leg[i].rev_per_pax = NaN

RECURSIVE PlainSum(_)
PlainSum(xs) == IF xs = <<>> THEN 0 ELSE Head(xs) + PlainSum(Tail(xs))

\* the value of a numeric cell of the sheet, 0 when it is empty
Plain(x) == IF IsNum(x) THEN x.n ELSE 0

\* the Booking rows (by index) of a leg's group
GroupOf(l) ==
    SelectSeq([i \in 1..Len(bk) |-> i],
              LAMBDA i : KeyOf(bk[i]) = <<l.flightnumber, l.flight_date, l.origin, l.destination>>)

\* C4: a leg's pax is the sum of the passenger counts of the bookings that
\* share its (flight number, flight date, origin, destination), its revenue
\* the sum of their total revenues, its cancels the number of them that
\* are cancelled.
C4_LegAggregates ==
    LegBuilt =>
        \A i \in 1..Len(leg) :
            LET g == GroupOf(leg[i])
            IN  /\ g # <<>>
                /\ leg[i].pax = Num(PlainSum([j \in 1..Len(g) |-> Plain(booking[g[j]].pax)]))
                /\ leg[i].revenue =
                      Num(PlainSum([j \in 1..Len(g) |->
                            Plain(booking[g[j]].rt) + Plain(booking[g[j]].rpre)
                                + Plain(booking[g[j]].rat)]))
                /\ leg[i].cancels =
                      Cardinality({j \in 1..Len(g) : booking[g[j]].cxl.k = "date"})

\* two bookings with pax 50 and 60 on a flight with capacity 200 give one leg
\* with pax 110 and load factor 0.55
C4_Witness ==
    /\ LegBuilt
    /\ Len(booking) = 2
    /\ booking[1].pax = Num(50) /\ booking[2].pax = Num(60)
    /\ Len(leg) = 1
    /\ leg[1].availablecapacity = Num(200)
    /\ leg[1].pax = Num(110)
    /\ leg[1].load_factor = Rat(55, 100)

\* C5: the leg table holds exactly one row for each distinct (flight number,
\* flight date, origin, destination) group of bookings, whatever rows the
\* Flight sheet holds.
C5_OneRowPerLeg ==
    LegBuilt =>
        \A key \in {KeyOf(bk[i]) : i \in 1..Len(bk)} :
            Cardinality({i \in 1..Len(leg) :
                <<leg[i].flightnumber, leg[i].flight_date, leg[i].origin, leg[i].destination>> = key}) = 1

-----------------------------------------------------------------------------
(* SpecKpi: run_analysis, kpi_viz and the DuckDB scripts over bookings of   *)
(* the feeder flight 100 FRA->FCO and the connecting flight 200 FCO->PMO on *)
(* a Monday and a Tuesday                                                   *)

KpiBookingRows ==
    {BRow(Str(<<"1">>), sg[1], Date(d), Str(sg[2]), Str(sg[3]), Num(50), Num(rc[1]), Num(0), Num(0), rc[2]) :
        sg \in {<<100, FRA, FCO>>, <<200, FCO, PMO>>},
        d \in {1, 2},
        rc \in {<<5000, NaT>>, <<2000, NaT>>, <<2000, Date(1)>>}}

AllFlights ==
    <<FRow(100, Date(1), Num(180)), FRow(100, Date(2), Num(180)),
      FRow(200, Date(1), Num(180)), FRow(200, Date(2), Num(180))>>

\* a Flight sheet whose legs differ in capacity; flight 200 has no row for day 2
VariedFlights ==
    <<FRow(100, Date(1), Num(180)), FRow(100, Date(2), Num(90)),
      FRow(200, Date(1), Num(90))>>

Configs ==
    {[cost |-> Num(25), pct |-> Rat(15, 100)], [cost |-> Num(40), pct |-> Rat(25, 100)]}

\* bookings of flight 100 on day 1, which flies FRA->FCO and on to PMO
SharedFlightRows ==
    {BRow(Str(<<"1">>), 100, Date(1), Str(sg[1]), Str(sg[2]), Num(pc2[1]), Num(2000), Num(0), Num(0), pc2[2]) :
        sg \in {<<FRA, FCO>>, <<FCO, PMO>>},
        pc2 \in {<<50, NaT>>, <<80, Date(1)>>}}

InitKpi ==
    /\ \/ /\ booking \in SeqsOf(KpiBookingRows, 1, MaxBookings)
          /\ \/ flight \in {AllFlights, <<>>} /\ cfg = [cost |-> Num(25), pct |-> Rat(15, 100)]
             \/ flight = AllFlights /\ cfg \in Configs
             \/ flight = VariedFlights /\ cfg = [cost |-> Num(40), pct |-> Rat(25, 100)]
       \/ /\ booking \in SeqsOf(SharedFlightRows, 1, MaxBookings)
          /\ flight = AllFlights
          /\ cfg = [cost |-> Num(40), pct |-> Rat(25, 100)]
    /\ legcsv = <<>>
    /\ PlainSheets
    /\ Idle

NextKpi ==
    \/ InsightsNormalize \/ InsightsLeg \/ InsightsTables \/ InsightsReport
    \/ KpiNormalize \/ KpiLeg \/ KpiMetrics \/ KpiTable
    \/ BuildViews \/ ComputeMetrics

SpecKpi == InitKpi /\ [][NextKpi]_vars

Week == [i \in 1..Len(DOW_ORDER) |-> Day(DOW_ORDER[i])]

\* C6: every weekday-grained output table holds each of the seven weekdays
\* exactly once per series, Monday first: cancellations by day of week, load
\* factor by day of week, load factor by segment and day of week (long: per
\* segment; wide: the index), and the FWLF/PACS/CALF tables of kpi_viz.
C6_WeekdayTables ==
    /\ InsightsTablesDone =>
        /\ Col(out.cxl_rate_by_dow, "flight_dow") = Week
        /\ Col(out.lf_by_dow, "dow") = Week
        /\ \A i \in 1..Len(leg) :
            Col(SelectSeq(out.lf_seg_dow,
                          LAMBDA r : r.origin = leg[i].origin /\ r.destination = leg[i].destination),
                "dow") = Week
        /\ Col(out.lf_seg_dow_wide, "dow") = Week
    /\ (run = "kpi" /\ pc \in {"table", "end"}) =>
        /\ Col(out.fwlf_dow, "dow") = Week
        /\ Col(out.calf_dow, "dow") = Week
        /\ Col(out.pacs_dow, "dow") = Week
    /\ (run = "kpi" /\ pc = "end") =>
        Col(out.kpi_summary_by_dow, "dow") = Week

\* kpi_viz has computed the PACS of every leg
PacsDone == run = "kpi" /\ pc \in {"table", "end"}

IsFeeder(r) == r.origin = Str(FRA) /\ r.destination = Str(FCO)

\* the legs of the connecting segment FCO->PMO on the weekday of leg r
Connecting(r) ==
    SelectSeq(leg, LAMBDA c : /\ c.origin = Str(FCO) /\ c.destination = Str(PMO)
                              /\ r.dow.k = "day" /\ c.dow = r.dow)

\* the connection credit of leg r: for a feeder leg the percentage of the
\* mean revenue of the connecting legs on its weekday, zero without such
\* legs; zero for every other leg
Credit(r, pct) ==
    IF IsFeeder(r) /\ Connecting(r) # <<>>
    THEN FMul(pct, Mean(Col(Connecting(r), "revenue")))
    ELSE Num(0)

\* (revenue + credit - cost * capacity) / capacity
PacsOf(r, pct, cost) ==
    FDiv(FSub(FAdd(r.revenue, Credit(r, pct)), FMul(cost, r.availablecapacity)),
         r.availablecapacity)

\* C8: for every leg with capacity > 0, PACS = (revenue + connection credit
\* - variable cost per seat * capacity) / capacity, the credit non-zero only
\* for FRA->FCO legs; PACS is undefined for a missing or non-positive capacity.
\* The percentage and the cost are the script's own values.
C8_Pacs ==
    PacsDone =>
        \A i \in 1..Len(leg) :
            IF GtZero(leg[i].availablecapacity)
            THEN out.pacs_vals[i].pacs =
                    PacsOf(leg[i], ConnectionValuePct, Num(VariableCostPerSeatLeg))
            ELSE out.pacs_vals[i].pacs = NaN

\* C9: a feeder leg whose weekday has no connecting leg gets a connection
\* credit of exactly zero: its PACS is (revenue - cost * capacity) / capacity,
\* defined whenever its capacity is > 0.
C9_NoConnectingData ==
    PacsDone =>
        \A i \in 1..Len(leg) :
            (IsFeeder(leg[i]) /\ Connecting(leg[i]) = <<>> /\ GtZero(leg[i].availablecapacity)) =>
                out.pacs_vals[i].pacs =
                    FDiv(FSub(leg[i].revenue,
                              FMul(Num(VariableCostPerSeatLeg), leg[i].availablecapacity)),
                         leg[i].availablecapacity)

\* C10: every PACS calculation uses the variable cost per seat and the
\* connection-credit percentage of the configuration the run was given:
\* kpi_viz in its PACS values, compute_metrics in the macros it exports with.
C10_ConfigUsed ==
    /\ PacsDone =>
        \A i \in 1..Len(leg) :
            (GtZero(leg[i].availablecapacity)
                /\ (IsFeeder(leg[i]) => Connecting(leg[i]) # <<>>)) =>
                out.pacs_vals[i].pacs = PacsOf(leg[i], cfg.pct, cfg.cost)
    /\ run = "compute_metrics" => db.macros = cfg

\* the plain sum of a numeric column of leg rows, an empty cell counting 0
ColSum(rows, f) == PlainSum([j \in 1..Len(rows) |-> Plain(rows[j][f])])

C12_Calf ==
    PacsDone =>
        \A i \in 1..Len(DOW_ORDER) :
            LET rows == OnDow(leg, DOW_ORDER[i])
                realized == ColSum(rows, "pax") - PlainSum(Col(rows, "cancels"))
                c == ColSum(rows, "availablecapacity")
            IN  /\ out.calf_dow[i].dow = Day(DOW_ORDER[i])
                /\ out.calf_dow[i].calf = (IF c > 0 THEN Rat(realized, c) ELSE NaN)

-----------------------------------------------------------------------------
(* SpecSeg: bookings on a segment, its reverse and a one-way segment, with  *)
(* positive, zero, negative and missing revenue cells, through the segment  *)
(* tables of run_analysis and kpi_viz                                        *)

SegBookingRows ==
    {BRow(Str(<<"1">>), sg[1], Date(v[4]), Str(sg[2]), Str(sg[3]), Num(v[3]), Num(v[1]), v[2], Num(0), NaT) :
        sg \in {<<100, FRA, FCO>>, <<101, FCO, FRA>>, <<200, FCO, PMO>>},
        v \in {<<750, Num(250), 50, 1>>, <<0, Num(0), 80, 2>>,
               <<-100, Num(20), 50, 1>>, <<1000, NaN, 80, 2>>}}

\* Flight sheets: every leg with a capacity; the reverse legs without a row;
\* no row at all
SegFlightSheets ==
    {<<FRow(100, Date(1), Num(200)), FRow(100, Date(2), Num(160)),
       FRow(101, Date(1), Num(100)), FRow(101, Date(2), Num(200)),
       FRow(200, Date(1), Num(200)), FRow(200, Date(2), Num(200))>>,
     <<FRow(100, Date(1), Num(200)), FRow(100, Date(2), Num(160)),
       FRow(200, Date(1), Num(200)), FRow(200, Date(2), Num(200))>>,
     <<>>}

InitSeg ==
    /\ booking \in SeqsOf(SegBookingRows, 1, MaxBookings)
    /\ flight \in SegFlightSheets
    /\ cfg = [cost |-> Num(40), pct |-> Rat(25, 100)]
    /\ legcsv = <<>>
    /\ PlainSheets
    /\ Idle

NextSeg ==
    \/ InsightsNormalize \/ InsightsLeg \/ InsightsTables \/ InsightsReport
    \/ KpiNormalize \/ KpiLeg \/ KpiMetrics

SpecSeg == InitSeg /\ [][NextSeg]_vars

\* the segment tables have been computed
SegDone == InsightsTablesDone \/ (run = "kpi" /\ pc = "table")

\* the share column of the segment table of the entry point that ran
ShareOf(r) == IF run = "insights" THEN r.anc_share ELSE r.aras

\* the plain sums of ancillary and total revenue over the bookings of a segment
SegAncillary(sg) ==
    LET rows == SegRows(bk, sg)
    IN  PlainSum([j \in 1..Len(rows) |-> Plain(rows[j].rev_pre) + Plain(rows[j].rev_at)])

SegTotal(sg) ==
    LET rows == SegRows(bk, sg)
    IN  PlainSum([j \in 1..Len(rows) |->
            Plain(rows[j].rev_ticket) + Plain(rows[j].rev_pre) + Plain(rows[j].rev_at)])

\* C13: for every segment ARAS is sum(ancillary revenue) / sum(total revenue)
\* over the segment's bookings whenever the total revenue is not zero, and the
\* undefined value when it is zero (total 1000, ancillary 250 give 1/4).
C13_Aras ==
    SegDone =>
        \A i \in 1..Len(bk) :
            LET sg == <<bk[i].origin, bk[i].destination>>
                rows == SegRows(out.seg, sg)
            IN  /\ Len(rows) = 1
                /\ ShareOf(rows[1]) =
                    (IF SegTotal(sg) # 0 THEN FDiv(Num(SegAncillary(sg)), Num(SegTotal(sg))) ELSE NaN)

\* the mean of the defined load factors pax / capacity of the legs of a
\* segment, undefined when the segment has no leg with a capacity > 0
MeanLf(sg) ==
    LET rows == SelectSeq(SegRows(leg, sg), LAMBDA r : GtZero(r.availablecapacity))
    IN  IF rows = <<>> THEN NaN
        ELSE FDiv(SumSkipNa([j \in 1..Len(rows) |-> FDiv(rows[j].pax, rows[j].availablecapacity)]),
                  Num(Len(rows)))

\* C14: for each ordered segment (A, B) of the leg table the directional
\* imbalance is the mean load factor of the A->B legs minus the mean load
\* factor of the B->A legs, and is undefined, never zero, when B->A has no
\* legs or no defined load factor.
C14_Imbalance ==
    InsightsTablesDone =>
        \A i \in 1..Len(leg) :
            LET sg == <<leg[i].origin, leg[i].destination>>
                back == <<leg[i].destination, leg[i].origin>>
                rows == SegRows(out.imb, sg)
            IN  /\ Len(rows) = 1
                /\ rows[1].lf_diff_vs_reverse =
                    (IF IsNum(MeanLf(sg)) /\ IsNum(MeanLf(back))
                     THEN FSub(MeanLf(sg), MeanLf(back)) ELSE NaN)
                /\ IsNA(MeanLf(back)) => IsNA(rows[1].lf_diff_vs_reverse)

\* a segment with a defined mean load factor whose reverse segment has no
\* legs: its imbalance is undefined
C14_Witness ==
    /\ InsightsTablesDone
    /\ \E i \in 1..Len(out.imb) :
        /\ IsNum(out.imb[i].load_factor)
        /\ SegRows(leg, <<out.imb[i].destination, out.imb[i].origin>>) = <<>>
        /\ IsNA(out.imb[i].lf_diff_vs_reverse)

-----------------------------------------------------------------------------
(* SpecDq: bookings with clean, missing and malformed cells, with the two   *)
(* routing separators, with and without a booking id and with the origin in *)
(* two spellings; Passenger rows; Flight sheets with a numeric, a text and  *)
(* an empty capacity cell; sheets without some of their columns; through    *)
(* the three entry points                                                   *)

MaxMissing == 2

\* a Booking row of flight 100 FRA->FCO with ticket revenue 100
DRow(fdate, pax, rat, cxl, res, routing) ==
    [BRow(Str(<<"1">>), 100, fdate, Str(FRA), Str(FCO), pax, Num(100), Num(0), rat, cxl)
        EXCEPT !.res = res, !.routing = routing]

Bad == Str(<<"x">>)
Dash == Str(FRA \o <<"-">> \o FCO)
Arrow == Str(FRA \o <<"→">> \o FCO)

DqBookingRows ==
    {DRow(Date(2), Num(3), Num(0), NaT, Date(1), Dash),
     DRow(Date(2), Num(3), Num(0), Date(1), Date(1), Dash),
     DRow(Date(2), Num(0), Num(0), Date(1), Date(1), Dash),
     DRow(Date(2), NaN, Num(0), Date(1), Date(1), Dash),
     DRow(Date(2), Bad, Num(0), NaT, Date(1), Dash),
     DRow(Bad, Num(3), Num(0), NaT, Date(1), Dash),
     DRow(Date(2), Num(3), Bad, Date(1), Date(1), Dash),
     DRow(Date(2), Num(-1), Num(10), Date(1), NaT, Dash),
     DRow(Date(2), Num(3), Num(0), NaT, Date(3), Arrow),
     DRow(Date(2), Num(3), Num(0), Bad, Date(1), Dash)}

\* a Passenger row as read from the sheet
PRow(id, channel, device) == [id |-> id, channel |-> channel, device |-> device]

PassengerRows ==
    {PRow(Str(<<"1">>), Str(<<"a", "p", "p">>), Str(<<"p", "c">>)),
     PRow(Str(<<"1">>), Str(<<"o", "t", "a">>), Str(<<"p", "c">>)),
     PRow(Str(<<"1">>), Str(<<"a", "p", "p">>), NaN),
     PRow(NaN, Str(<<"o", "t", "a">>), NaN)}

\* routing cells: the two separators, lower case with spaces, the reverse
\* direction, an empty cell
RoutingRows ==
    {DRow(Date(2), Num(3), Num(0), NaT, Date(1), routing) :
        routing \in {Dash, Arrow, Str(FRA \o Sep2 \o FCO),
                     Str(<<"f", "r", "a", " ", "-", " ", "f", "c", "o">>),
                     Str(FCO \o <<"-">> \o FRA), NaN}}

\* bookings of one leg under two booking ids and without a booking id, kept
\* and cancelled
IdRows ==
    {[DRow(Date(2), Num(3), Num(0), cxl, Date(1), Dash) EXCEPT !.id = id] :
        id \in {Str(<<"1">>), Str(<<"2">>), NaN}, cxl \in {NaT, Date(1)}}

\* bookings of one leg whose origin is written FRA and, in lower case with a
\* trailing space, fra
CaseRows ==
    {[DRow(Date(2), Num(pax), Num(0), NaT, Date(1), Dash) EXCEPT !.org = org] :
        org \in {Str(FRA), Str(<<"f", "r", "a", " ">>)}, pax \in {3, 100}}

DqFlightSheets ==
    {<<FRow(100, Date(2), Num(180))>>, <<FRow(100, Date(2), Bad)>>, <<FRow(100, Date(2), NaN)>>}

\* columns that a sheet may come without
OptionalColumns ==
    {"routing", "passengercount", "revenue_per_booking_(ancilliary_at_check_in)",
     "cancellation_date", "availablecapacity", "reservation_date",
     "booking_channel", "device_used"}

InitDq ==
    /\ \/ /\ booking \in SeqsOf(DqBookingRows, 1, MaxBookings)
          /\ passenger = <<>>
          /\ flight = <<FRow(100, Date(2), Num(180))>>
          /\ missing = {}
       \/ /\ booking \in SeqsOf(DqBookingRows, 1, 1)
          /\ passenger = <<>>
          /\ flight \in DqFlightSheets
          /\ missing = {}
       \/ /\ booking = <<DRow(Date(2), Num(3), Num(0), Date(1), Date(1), Dash)>>
          /\ passenger \in SeqsOf(PassengerRows, 0, 2)
          /\ flight = <<FRow(100, Date(2), Num(180))>>
          /\ missing \in {m \in SUBSET OptionalColumns : Cardinality(m) <= MaxMissing}
       \/ /\ booking \in SeqsOf(RoutingRows, 1, 1) \cup SeqsOf(IdRows, 2, MaxBookings)
                            \cup SeqsOf(CaseRows, 1, MaxBookings)
          /\ passenger = <<>>
          /\ flight = <<FRow(100, Date(2), Num(180))>>
          /\ missing = {}
    /\ legcsv = <<>>
    /\ cfg = NoConfig
    /\ Idle

NextDq ==
    \/ DqAddDerived \/ DqChecks
    \/ InsightsNormalize \/ InsightsLeg \/ InsightsTables \/ InsightsReport
    \/ KpiNormalize \/ KpiLeg \/ KpiMetrics \/ KpiTable

SpecDq == InitDq /\ [][NextDq]_vars

\* the Flight sheet holds a capacity cell that is text
TextCapacity == \E i \in 1..Len(flight) : flight[i].cap.k = "str"

\* the columns a check reads
CheckColumns(name) ==
    LET rev == {"revenue_per_booking_(ticket)", "revenue_per_booking_(ancilliary_pre_check_in)",
                "revenue_per_booking_(ancilliary_at_check_in)"}
        key == {"flightnumber", "flight_date", "origin", "destination"}
        cap == key \cup {"passengercount", "flightdate", "availablecapacity"}
    IN  CASE name = "canceled_with_checkin_ancillary" ->
                {"cancellation_date", "revenue_per_booking_(ancilliary_at_check_in)"}
          [] name = "cancellation_before_reservation" -> {"cancellation_date", "reservation_date"}
          [] name = "reservation_after_flight" -> {"reservation_date", "flight_date"}
          [] name = "same_booking_multiple_channels" -> {"bookingid", "booking_channel"}
          [] name = "same_booking_multiple_devices" -> {"bookingid", "device_used"}
          [] name = "revenue_with_zero_passengers" -> rev \cup {"passengercount"}
          [] name = "negative_revenue_fields" -> rev
          [] name = "negative_passengers" -> {"passengercount"}
          [] name \in {"pax_exceeds_capacity", "missing_capacity_for_leg", "capacity_out_of_range"} -> cap
          [] name = "routing_inconsistent_with_od" -> {"routing", "origin", "destination"}
          [] name = "duplicate_legs_within_pnr" -> key \cup {"bookingid_(pnr)"}
          [] name = "cancellation_with_positive_pax" -> {"cancellation_date", "passengercount"}
          [] name = "missing_flight_date" -> {"flight_date"}

\* the checks whose columns the sheets have
Runnable == {DqCheckOrder[i] : i \in {i \in 1..Len(DqCheckOrder) : CheckColumns(DqCheckOrder[i]) \cap missing = {}}}

\* C15: whatever optional columns the sheets lack, the data-quality run
\* completes without raising; the checks whose columns are absent are omitted
\* from the result and from the summary, and every other check is run.
C15_SkipMissing ==
    (run = "dq" /\ ~TextCapacity) =>
        /\ pc # "raised"
        /\ pc = "end" =>
            /\ DOMAIN out = Runnable
            /\ {summary[i].check : i \in 1..Len(summary)} = Runnable

\* C16: a malformed value in a single cell (a date that does not parse, a
\* revenue, passenger count or seat capacity that is not a number) never
\* aborts a run: normalization, leg aggregation, the load factor and the
\* data-quality checks all complete (a run with every column present only
\* stops after its tables and charts are written, in the report step).
C16_MalformedTolerated ==
    (missing = {} /\ pc = "raised") => (run = "insights" /\ files # <<>>)

\* C17: a run of an entry point writes all of its output files or none of
\* them: a run that stops on an error has written no file.
C17_AllOrNothing == pc = "raised" => files = <<>>

\* the data-quality run has completed
DqDone == run = "dq" /\ pc = "end"

\* the Booking rows, in sheet order, whose cancellation date cell is a date
\* and whose passenger count cell is a number above zero
CancelledWithPax ==
    LET idx == SelectSeq([i \in 1..Len(booking) |-> i],
                         LAMBDA i : /\ booking[i].cxl.k = "date"
                                    /\ booking[i].pax.k = "num"
                                    /\ booking[i].pax.n > 0)
    IN  [i \in 1..Len(idx) |-> bk[idx[i]]]

\* C18: a booking is in cancellation_with_positive_pax exactly when its
\* cancellation date is present and its passenger count is above zero.
C18_CancellationWithPositivePax ==
    DqDone => out.cancellation_with_positive_pax = CancelledWithPax

\* a cancelled booking with passengers is reported next to a cancelled
\* booking without passengers, which is not
C18_Witness ==
    /\ DqDone
    /\ Len(out.cancellation_with_positive_pax) = 1
    /\ \E i \in 1..Len(booking) :
            booking[i].cxl.k = "date" /\ booking[i].pax \in {Num(0), NaN}

\* C19: the summary has exactly one row per executed check, its count is the
\* size of the check's anomaly set, and the rows are in non-increasing order
\* of count.
C19_Summary ==
    DqDone =>
        /\ Len(summary) = Cardinality(DOMAIN out)
        /\ \A n \in DOMAIN out :
                \E i \in 1..Len(summary) :
                    /\ summary[i] = [check |-> n, count |-> Len(out[n])]
                    /\ \A j \in 1..Len(summary) : summary[j].check = n => j = i
        /\ \A i \in 1..(Len(summary) - 1) : summary[i].count >= summary[i + 1].count

\* a summary of all fifteen checks that is not in the order of the checks:
\* the first check found nothing and a later one found two rows
C19_Witness ==
    /\ DqDone
    /\ Len(summary) = Len(DqCheckOrder)
    /\ out[DqCheckOrder[1]] = <<>>
    /\ summary[1].count = 2
    /\ \E i \in 1..Len(summary) : summary[i].count = 1

\* the bookings of the leg l: same flight number, date, origin and destination
OwnBookings(l) ==
    SelectSeq(bk, LAMBDA r : /\ r.flightnumber = l.flightnumber
                             /\ r.flight_date = l.flight_date
                             /\ r.origin = l.origin
                             /\ r.destination = l.destination)

\* C20: the realized passengers of a leg are its own booked passengers less
\* the number of its own cancelled bookings; the bookings of another leg with
\* the same flight number and date do not count, and the value is defined.
C20_RealizedPax ==
    (run = "kpi" /\ pc \in {"table", "end"}) =>
        \A i \in 1..Len(leg) :
            LET own == OwnBookings(leg[i])
            IN  out.realized_pax[i] =
                    FSub(SumSkipNa(Col(own, "passengercount")),
                         Num(Cardinality({j \in 1..Len(own) : own[j].is_cancelled})))

\* the text of a cell in upper case and without its spaces
Folded(x) == SelectSeq(Upper(PyStr(x)), LAMBDA c : c # " ")

\* the routing of the Booking row r names its origin and destination, with
\* one of the two separators, whatever the case and the spaces
RoutingMatches(r) ==
    \/ Folded(r.routing) = Folded(Str(PyStr(r.org) \o <<"-">> \o PyStr(r.dst)))
    \/ Folded(r.routing) = Folded(Str(PyStr(r.org) \o Sep2 \o PyStr(r.dst)))

\* C21: a booking is in routing_inconsistent_with_od exactly when its routing,
\* compared without regard to case and spaces, is neither origin-destination
\* nor origin, the second separator, destination; a routing written with the
\* second separator is not flagged.
C21_Routing ==
    DqDone =>
        LET idx == SelectSeq([i \in 1..Len(booking) |-> i], LAMBDA i : ~RoutingMatches(booking[i]))
        IN  out.routing_inconsistent_with_od = [i \in 1..Len(idx) |-> bk[idx[i]]]

\* the Passenger rows, in sheet order, whose normalized booking id is present
\* and whose booking's rows name more than one distinct value in the field f
\* (an empty cell names none)
MultiNamed(f) ==
    LET id(i) == DqNormalizeBookingId(passenger[i].id)
        named(i) == {passenger[j][f] : j \in {j \in 1..Len(passenger) :
                                                /\ id(j) = id(i)
                                                /\ ~IsNA(passenger[j][f])}}
        idx == SelectSeq([i \in 1..Len(passenger) |-> i],
                         LAMBDA i : ~IsNA(id(i)) /\ Cardinality(named(i)) > 1)
    IN  [i \in 1..Len(idx) |-> DqPassengerRow(passenger[idx[i]])]

\* C22: a Passenger row is in same_booking_multiple_channels exactly when its
\* normalized booking id is present and the rows of that id name more than
\* one distinct channel, a row without a channel naming none; likewise for
\* same_booking_multiple_devices and the device.
C22_MultiValued ==
    DqDone =>
        /\ "same_booking_multiple_channels" \in DOMAIN out =>
                out.same_booking_multiple_channels = MultiNamed("channel")
        /\ "same_booking_multiple_devices" \in DOMAIN out =>
                out.same_booking_multiple_devices = MultiNamed("device")

\* C23: a booking row is in duplicate_legs_within_pnr exactly when another
\* booking row has the same normalized booking id, which is present, and the
\* same flight number, flight date, origin and destination; rows without a
\* booking id are not duplicates of each other.
C23_DuplicateLegs ==
    DqDone =>
        LET same(i, j) == /\ i # j
                          /\ ~IsNA(bk[i].bookingid_norm)
                          /\ bk[i].bookingid_norm = bk[j].bookingid_norm
                          /\ bk[i].flightnumber = bk[j].flightnumber
                          /\ bk[i].flight_date = bk[j].flight_date
                          /\ bk[i].origin = bk[j].origin
                          /\ bk[i].destination = bk[j].destination
            idx == SelectSeq([i \in 1..Len(bk) |-> i], LAMBDA i : \E j \in 1..Len(bk) : same(i, j))
        IN  out.duplicate_legs_within_pnr = [i \in 1..Len(idx) |-> bk[idx[i]]]

-----------------------------------------------------------------------------
(* SpecChan: Passenger rows with channel cells of every spelling of the     *)
(* synonym table, other texts, a number and an empty cell, through the      *)
(* normalisation of run_analysis and of kpi_viz                             *)

MaxPassengers == 2

ChannelCells ==
    {Str(Chars(ChannelMapping[i][1])) : i \in 1..Len(ChannelMapping)}
        \cup {Str(<<" ", "A", "p", "p", " ">>), Str(<<"A", "P", "P">>),
              Str(<<"f", "a", "x">>), Str(<<" ", "F", "a", "x">>), Num(5), NaN}

ChannelRows == {PRow(Str(<<"1">>), c, Str(<<"p", "c">>)) : c \in ChannelCells}

InitChan ==
    /\ booking = <<DRow(Date(2), Num(3), Num(0), NaT, Date(1), Dash)>>
    /\ passenger \in SeqsOf(ChannelRows, 1, MaxPassengers)
    /\ flight = <<FRow(100, Date(2), Num(180))>>
    /\ missing = {}
    /\ legcsv = <<>>
    /\ cfg = NoConfig
    /\ Idle

NextChan == InsightsNormalize \/ KpiNormalize

SpecChan == InitChan /\ [][NextChan]_vars

\* the channel a cell stands for: its text trimmed and in lower case, a
\* synonym replaced by its canonical name; an empty cell stands for none
CanonicalChannel(x) ==
    IF IsNA(x) THEN x
    ELSE LET t == Lower(Strip(PyStr(x)))
         IN  IF t \in {Chars("app"), Chars("condor-app")} THEN Str(Chars("condor app"))
             ELSE IF t = Chars("web") THEN Str(Chars("website"))
             ELSE IF t = Chars("online travel agency") THEN Str(Chars("ota"))
             ELSE Str(t)

\* C24: channel normalisation maps every channel text, trimmed and lower-cased,
\* through the synonym table, passes every other text through trimmed and
\* lower-cased, and keeps a missing channel missing, in run_analysis and in
\* kpi_viz alike.
C24_Channel ==
    (run \in {"insights", "kpi"} /\ pc = "leg") =>
        \A i \in 1..Len(pg) : pg[i].booking_channel_norm = CanonicalChannel(passenger[i].channel)

\* C25: the transforms of exploration_dq_checks leave the tables of their
\* caller as they were: add_derived the three sheets that load_excel gave,
\* dq_checks the booking, passenger and flight frames that main passes in.
C25_InputsKept ==
    [][/\ run' = "dq" => (booking' = booking /\ passenger' = passenger /\ flight' = flight)
       /\ (run = "dq" /\ pc = "checks" /\ pc' = "end") => (bk' = bk /\ pg' = pg /\ flight' = flight)]_vars

\* C26: in the segment table of run_analysis a segment has no more
\* cancellations than bookings, and its cancel_rate, when defined, lies
\* between 0 and 1, also when bookings have no booking id.
C26_CancelRate ==
    InsightsTablesDone =>
        \A i \in 1..Len(out.seg) :
            /\ out.seg[i].cancels <= out.seg[i].bookings
            /\ out.seg[i].cancel_rate.k = "num" =>
                    /\ out.seg[i].cancel_rate.n >= 0
                    /\ out.seg[i].cancel_rate.n <= out.seg[i].cancel_rate.d

\* the leg table that run_analysis builds from the same sheets
InsightsLegOfSheets ==
    InsightsLegTable([i \in 1..Len(booking) |-> InsightsNormRow(booking[i])], NormFlights)

\* the key of a leg row, its codes in upper case and trimmed
LegKey(l) == <<l.flightnumber, l.flight_date, UpperStrip(l.origin), UpperStrip(l.destination)>>

\* C27: the leg table of dq_checks has the legs of the leg table of
\* run_analysis, each with the same passenger sum, also when origin or
\* destination differ in case or surrounding spaces; a leg is in
\* pax_exceeds_capacity exactly when its load factor in the other table is
\* above 1.
C27_SameLegs ==
    DqDone =>
        LET ins == InsightsLegOfSheets
            over == {i \in 1..Len(ins) : FGt(ins[i].load_factor, Num(1))}
        IN  /\ Len(leg) = Len(ins)
            /\ {<<LegKey(leg[i]), leg[i].pax>> : i \in 1..Len(leg)}
                    = {<<LegKey(ins[i]), ins[i].pax>> : i \in 1..Len(ins)}
            /\ {LegKey(out.pax_exceeds_capacity[i]) : i \in 1..Len(out.pax_exceeds_capacity)}
                    = {LegKey(ins[i]) : i \in over}

====
